---- MODULE Spec2Model ----
(***************************************************************************)
(* The Digital Twin simulation engine (services/digitalTwinService) and    *)
(* the DigitalTwinView that drives it.                                     *)
(*                                                                         *)
(* JavaScript strings are modelled as sequences of one-character strings,  *)
(* so that includes, toLowerCase, substring and replace are computed and   *)
(* not assumed.  JSON objects are records, arrays are sequences.           *)
(***************************************************************************)
EXTENDS Integers, Sequences, FiniteSets, TLC

VARIABLES
    state,       \* AIAgentDigitalTwin.state of the controller under test
    shares,      \* for each top-level section of state: the caller object
                 \* whose section is the very same JS object, or "none"
    callerObj,   \* objects the caller holds: returned snapshots, configs
    lastCall,    \* what the last operation was given and what it returned
    now,         \* Date.now()
    \* DigitalTwinView: its React state, and the handler suspended in its timer
    twin,        \* whether a twin is installed; state is its held state
    viewTwinState, \* twinState of the view: the displayed snapshot
    configDraft,
    userInput,
    isLoading,
    error,
    log,
    pending,     \* the handleProcessInteraction call waiting for its timer
    orphan,      \* the held state of a replaced twin that pending still holds
    \* ImageView: the generated images and the editing modal
    images,
    isModalOpen,
    editPrompt,
    editingState,
    editRequests, \* the handleStartEdit calls waiting for editImage
    editsIssued, \* how many times Generate Edit went through, for the bound
    \* AgentBuilderView: its React state (agentConfig, messages, isLoading,
    \* error), and the handleSendMessage calls waiting for their stream
    builder,
    streams

ctrlVars == <<state, shares, callerObj, lastCall, now>>

viewVars == <<twin, viewTwinState, configDraft, userInput, isLoading, error, log, pending, orphan>>

imageVars == <<images, isModalOpen, editPrompt, editingState, editRequests, editsIssued>>

builderVars == <<builder, streams>>

panelVars == <<imageVars, builderVars>>

vars == <<ctrlVars, viewVars, panelVars>>

-----------------------------------------------------------------------------
(* JavaScript values that are not strings, numbers, arrays or objects.      *)

\* an object-valued property that is not present on its object
Absent == [absent |-> TRUE]

Null == [null |-> TRUE]

\* null where the other values are strings: the error of a view
NoError == <<"(null)">>

\* x.p === undefined, for an object-valued property
IsUndefined(v) == v = Absent

IsNullish(v) == v = Absent \/ v = Null

\* a string-valued property that is not present, and one that is present and
\* holds undefined: one-element sequences no string of characters equals
AbsentText == <<"(absent)">>

UndefinedText == <<"(undefined)">>

\* an array-valued property that is not present
AbsentList == <<AbsentText>>

\* x.p === undefined, for a string-valued property
IsUndefinedText(t) == t = AbsentText \/ t = UndefinedText

\* obj.key of a record that may lack the property
Prop(obj, key) == IF key \in DOMAIN obj THEN obj[key] ELSE Absent

PropText(obj, key) == IF key \in DOMAIN obj THEN obj[key] ELSE AbsentText

-----------------------------------------------------------------------------
(* String primitives.                                                       *)

Min(a, b) == IF a < b THEN a ELSE b

\* String.prototype.includes
Includes(s, sub) ==
    \E i \in 0..(Len(s) - Len(sub)) : SubSeq(s, i + 1, i + Len(sub)) = sub

UpperToLower ==
    "A" :> "a" @@ "B" :> "b" @@ "C" :> "c" @@ "D" :> "d" @@ "E" :> "e" @@
    "F" :> "f" @@ "G" :> "g" @@ "H" :> "h" @@ "I" :> "i" @@ "J" :> "j" @@
    "K" :> "k" @@ "L" :> "l" @@ "M" :> "m" @@ "N" :> "n" @@ "O" :> "o" @@
    "P" :> "p" @@ "Q" :> "q" @@ "R" :> "r" @@ "S" :> "s" @@ "T" :> "t" @@
    "U" :> "u" @@ "V" :> "v" @@ "W" :> "w" @@ "X" :> "x" @@ "Y" :> "y" @@
    "Z" :> "z"

\* String.prototype.toLowerCase
toLowerCase(s) ==
    [i \in 1..Len(s) |-> IF s[i] \in DOMAIN UpperToLower THEN UpperToLower[s[i]] ELSE s[i]]

\* String.prototype.substring(from, to), 0 <= from
substring(s, from, to) == SubSeq(s, from + 1, Min(to, Len(s)))

\* String.prototype.trim, for the blank characters of the inputs
RECURSIVE trimStart(_)
trimStart(s) == IF s # <<>> /\ Head(s) = " " THEN trimStart(Tail(s)) ELSE s

RECURSIVE trimEnd(_)
trimEnd(s) ==
    IF s # <<>> /\ s[Len(s)] = " " THEN trimEnd(SubSeq(s, 1, Len(s) - 1)) ELSE s

trim(s) == trimEnd(trimStart(s))

\* s.replace(new RegExp(pat, 'g'), rep) for a pattern without metacharacters:
\* every non-overlapping occurrence, left to right
RECURSIVE replaceAll(_, _, _)
replaceAll(s, pat, rep) ==
    LET hits == {i \in 1..(Len(s) - Len(pat) + 1) : SubSeq(s, i, i + Len(pat) - 1) = pat}
        first == CHOOSE i \in hits : \A j \in hits : i <= j
    IN  IF hits = {} THEN s
        ELSE SubSeq(s, 1, first - 1) \o rep
             \o replaceAll(SubSeq(s, first + Len(pat), Len(s)), pat, rep)

DigitChar == <<"0", "1", "2", "3", "4", "5", "6", "7", "8", "9">>

RECURSIVE natToString(_)
natToString(n) ==
    IF n < 10 THEN <<DigitChar[n + 1]>>
    ELSE natToString(n \div 10) \o <<DigitChar[(n % 10) + 1]>>

\* String(n) of an integer
numberToString(n) == IF n < 0 THEN <<"-">> \o natToString(0 - n) ELSE natToString(n)

-----------------------------------------------------------------------------
(* Literals the claims name.                                                *)

Memory_Retrieval == <<"M","e","m","o","r","y","_","R","e","t","r","i","e","v","a","l">>

Default_LLM_Fallback == <<"D","e","f","a","u","l","t","_","L","L","M","_","F","a","l","l","b","a","c","k">>

Decision_Rule == <<"D","e","c","i","s","i","o","n","_","R","u","l","e",":"," ">>

Reinforcement_Learning_Feedback == <<"R","e","i","n","f","o","r","c","e","m","e","n","t","_","L","e","a","r","n","i","n","g","_",
        "F","e","e","d","b","a","c","k"," ","(","R","e","w","a","r","d",":"," ">>

default_response == <<"d","e","f","a","u","l","t","_","r","e","s","p","o","n","s","e">>

LLM_CALL == <<"L","L","M","_","C","A","L","L">>

FIXED_RESPONSE == <<"F","I","X","E","D","_","R","E","S","P","O","N","S","E">>

TOOL_USE == <<"T","O","O","L","_","U","S","E">>

PLAN_EXECUTION == <<"P","L","A","N","_","E","X","E","C","U","T","I","O","N">>

MEMORY_QUERY == <<"M","E","M","O","R","Y","_","Q","U","E","R","Y">>

ReturnPolicyEntry == <<"T","h","e"," ","r","e","t","u","r","n"," ","p","o","l","i","c","y"," ","i","s"," ","3","0",
        " ","d","a","y","s"," ","f","o","r"," ","a"," ","f","u","l","l"," ","r","e","f","u",
        "n","d",".">>

-----------------------------------------------------------------------------
(* Helper functions of the service.                                         *)

\* a classifier that looks for the negative cues first
negativeFirst(context, input) ==
    LET sentiment ==
            IF Includes(input, <<"b","a","d">>) \/ Includes(input, <<"t","e","r","r","i","b","l","e">>) THEN <<"n","e","g","a","t","i","v","e">>
            ELSE IF Includes(input, <<"g","r","e","a","t">>) \/ Includes(input, <<"g","o","o","d">>) THEN <<"p","o","s","i","t","i","v","e">>
            ELSE <<"n","e","u","t","r","a","l">>
    IN  ("input" :> input @@ "inputLength" :> Len(input)
         @@ "isQuestion" :> Includes(input, <<"?">>) @@ "sentiment" :> sentiment) @@ context

\* a context is a function from property names to values
updateContextFromInput(context, input) ==
    LET sentiment ==
            IF Includes(input, <<"g","r","e","a","t">>) \/ Includes(input, <<"g","o","o","d">>) THEN <<"p","o","s","i","t","i","v","e">>
            ELSE IF Includes(input, <<"b","a","d">>) \/ Includes(input, <<"t","e","r","r","i","b","l","e">>) THEN <<"n","e","g","a","t","i","v","e">>
            ELSE <<"n","e","u","t","r","a","l">>
    IN  ("input" :> input @@ "inputLength" :> Len(input) @@
         "isQuestion" :> Includes(input, <<"?">>) @@ "sentiment" :> sentiment) @@ context

\* a retrieval that surfaces the last of the matching entries
lastMatch(twinState, query) ==
    LET Matches(entry) == Includes(toLowerCase(entry.content), toLowerCase(query))
        relevantEntries == SelectSeq(twinState.memory.longTermMemory.entries, Matches)
    IN  IF Len(relevantEntries) > 0 THEN relevantEntries[Len(relevantEntries)].content ELSE <<>>

\* the caller has checked that twinState.memory is an object
retrieveRelevantMemory(twinState, query) ==
    LET Matches(entry) == Includes(toLowerCase(entry.content), toLowerCase(query))
        relevantEntries == SelectSeq(twinState.memory.longTermMemory.entries, Matches)
    IN  IF Len(relevantEntries) > 0 THEN relevantEntries[1].content ELSE <<>>

\* an engine that takes every condition text for a true one
alwaysMatches(condition, context) == TRUE

(* evaluateCondition hands the condition text to the JavaScript engine     *)
(* (new Function with the context in scope).  The engine is modelled for   *)
(* the condition texts the configurations use: the value the text has for  *)
(* the context, and false when building or running it throws.              *)
evaluateCondition(condition, context) ==
    CASE condition = "context.input.toLowerCase().includes('hello') || context.input.toLowerCase().includes('hi')" ->
            \/ Includes(toLowerCase(context["input"]), <<"h","e","l","l","o">>)
            \/ Includes(toLowerCase(context["input"]), <<"h","i">>)
      [] condition = "context.input.toLowerCase().includes('what is your name')" ->
            Includes(toLowerCase(context["input"]), <<"w","h","a","t"," ","i","s"," ","y","o","u","r"," ","n","a","m","e">>)
      [] condition = "context.sentiment === 'negative'" ->
            context["sentiment"] = <<"n","e","g","a","t","i","v","e">>
      [] condition = "context.isQuestion === true" ->
            context["isQuestion"] = TRUE
      [] condition = "true" -> TRUE
      [] condition = "false" -> FALSE
         \* ReferenceError unless an earlier stage put relevantMemory in scope
      [] condition = "relevantMemory.length > 0" ->
            "relevantMemory" \in DOMAIN context /\ Len(context["relevantMemory"]) > 0
         \* SyntaxError from new Function
      [] condition = "context.input.includes(" -> FALSE

\* Object.keys order of { ...payload.vars, ...context }
KeyOrder == <<"topic", "input", "inputLength", "isQuestion", "sentiment", "relevantMemory">>

KeyText(key) ==
    CASE key = "topic" -> <<"t","o","p","i","c">>
      [] key = "input" -> <<"i","n","p","u","t">>
      [] key = "inputLength" -> <<"i","n","p","u","t","L","e","n","g","t","h">>
      [] key = "isQuestion" -> <<"i","s","Q","u","e","s","t","i","o","n">>
      [] key = "sentiment" -> <<"s","e","n","t","i","m","e","n","t">>
      [] key = "relevantMemory" -> <<"r","e","l","e","v","a","n","t","M","e","m","o","r","y">>

\* String(vars[key] ?? ''); no value of the model is null or undefined
ValueText(key, v) ==
    CASE key = "inputLength" -> numberToString(v)
      [] key = "isQuestion" -> IF v THEN <<"t","r","u","e">> ELSE <<"f","a","l","s","e">>
      [] OTHER -> v

\* `${x}` of a string that may be undefined
Interpolate(t) == IF IsUndefinedText(t) THEN <<"u","n","d","e","f","i","n","e","d">> ELSE t

RECURSIVE substitute(_, _, _)
substitute(prompt, keys, values) ==
    IF keys = <<>> THEN prompt
    ELSE substitute(replaceAll(prompt, <<"{","{">> \o KeyText(Head(keys)) \o <<"}","}">>,
                               ValueText(Head(keys), values[Head(keys)])),
                    Tail(keys), values)

\* the caller has checked that twinState.promptEngineering is an object
simulateLLMCall(twinState, templateName, values) ==
    LET Named(t) == t.name = templateName
        found == SelectSeq(twinState.promptEngineering.templates, Named)
        InVars(k) == k \in DOMAIN values
        prompt == substitute(found[1].template, SelectSeq(KeyOrder, InVars), values)
    IN  IF found = <<>>
        THEN <<"E","r","r","o","r",":"," ","P","r","o","m","p","t"," ","t","e","m","p","l","a","t","e",
            " ","'">> \o Interpolate(templateName) \o <<"'"," ","n","o","t"," ","f","o","u","n","d",".">>
        ELSE IF Includes(prompt, <<"h","e","l","l","o">>) \/ Includes(prompt, <<"h","i">>)
        THEN <<"H","e","l","l","o"," ","t","h","e","r","e","!"," ","H","o","w"," ","c","a","n"," ","I",
            " ","a","s","s","i","s","t"," ","y","o","u"," ","t","o","d","a","y","?">>
        ELSE IF Includes(prompt, <<"y","o","u","r"," ","n","a","m","e">>)
        THEN <<"Y","o","u"," ","c","a","n"," ","c","a","l","l"," ","m","e"," ">> \o Interpolate(twinState.name) \o <<".">>
        ELSE IF "relevantMemory" \in DOMAIN values /\ values["relevantMemory"] # <<>>
        THEN <<"B","a","s","e","d"," ","o","n"," ","w","h","a","t"," ","I"," ","k","n","o","w"," ","(",
            "\"">> \o substring(values["relevantMemory"], 0, 50)
                 \o <<".",".",".","\"",")",","," ","h","o","w"," ","c","a","n"," ","I"," ","h","e",
                     "l","p","?">>
        ELSE <<"(","S","i","m","u","l","a","t","e","d"," ","L","L","M"," ","r","e","s","p","o","n","s",
            "e"," ","f","o","r",":"," ","\"">> \o substring(prompt, 0, 100) \o <<".",".",".","\"",")">>

-----------------------------------------------------------------------------
(* The numbers of the calculator.  A number is held as the decimal digits    *)
(* of a natural, most significant first; sums and products are those of      *)
(* IEEE 754 doubles: the exact result rounded to 53 significant bits, ties   *)
(* to the even significand.                                                  *)

Front(seq) == SubSeq(seq, 1, Len(seq) - 1)

\* digits without their leading zeros
stripZeros(digits) ==
    LET significant == {i \in 1..Len(digits) : digits[i] # 0}
        first == CHOOSE i \in significant : \A j \in significant : i <= j
    IN  IF significant = {} THEN <<0>> ELSE SubSeq(digits, first, Len(digits))

\* the digits of a natural of the model
RECURSIVE Number(_)
Number(n) == IF n < 10 THEN <<n>> ELSE Number(n \div 10) \o <<n % 10>>

\* digits with leading zeros up to length n
padDigits(digits, n) ==
    [i \in 1..n |-> IF i <= n - Len(digits) THEN 0 ELSE digits[i - (n - Len(digits))]]

\* the exact sum; there is a carry into position i when some later position
\* overflows and every position between passes the carry on
addDigits(x, y) ==
    LET n == (IF Len(x) > Len(y) THEN Len(x) ELSE Len(y)) + 1
        a == padDigits(x, n)
        b == padDigits(y, n)
        carry(i) ==
            IF \E j \in (i + 1)..n :
                   /\ a[j] + b[j] >= 10
                   /\ \A m \in (i + 1)..(j - 1) : a[m] + b[m] = 9
            THEN 1 ELSE 0
    IN  stripZeros([i \in 1..n |-> (a[i] + b[i] + carry(i)) % 10])

\* a natural as limbs of four digits, least significant first
limbsOf(x) ==
    LET n == (Len(x) + 3) \div 4
        p == padDigits(x, 4 * n)
    IN  [j \in 1..n |-> p[4 * (n - j) + 1] * 1000 + p[4 * (n - j) + 2] * 100
                        + p[4 * (n - j) + 3] * 10 + p[4 * (n - j) + 4]]

\* the sum of a[i] * b[k + 1 - i] over the limbs from i on
RECURSIVE limbProducts(_, _, _, _)
limbProducts(a, b, k, i) ==
    IF i > Len(a) THEN 0
    ELSE (IF k + 1 - i \in 1..Len(b) THEN a[i] * b[k + 1 - i] ELSE 0)
         + limbProducts(a, b, k, i + 1)

\* the carry into limb k of the product
RECURSIVE carryOfProduct(_, _, _)
carryOfProduct(a, b, k) ==
    IF k = 1 THEN 0
    ELSE (limbProducts(a, b, k - 1, 1) + carryOfProduct(a, b, k - 1)) \div 10000

\* the exact product, for factors of up to 20 digits together
mulDigits(x, y) ==
    LET a == limbsOf(x)
        b == limbsOf(y)
        n == Len(a) + Len(b)
        limb == [k \in 1..n |-> (limbProducts(a, b, k, 1) + carryOfProduct(a, b, k)) % 10000]
    IN  stripZeros([i \in 1..(4 * n) |->
            LET k == n - ((i - 1) \div 4)
                place == (i - 1) % 4
            IN  (limb[k] \div (CASE place = 0 -> 1000 [] place = 1 -> 100
                                 [] place = 2 -> 10 [] place = 3 -> 1)) % 10])

\* 2^53: a double holds 53 significant bits
TwoTo53 == <<9, 0, 0, 7, 1, 9, 9, 2, 5, 4, 7, 4, 0, 9, 9, 2>>

halfDigits(x) ==
    stripZeros([i \in 1..Len(x) |->
        ((IF i = 1 THEN 0 ELSE 10 * (x[i - 1] % 2)) + x[i]) \div 2])

lessDigits(x, y) ==
    \/ Len(x) < Len(y)
    \/ /\ Len(x) = Len(y)
       /\ \E i \in 1..Len(x) : x[i] < y[i] /\ \A j \in 1..(i - 1) : x[j] = y[j]

\* a natural shifted right until it is below 2^53, rounded to nearest with
\* ties to the even significand, and shifted back.  guard is the bit last
\* shifted out and sticky tells whether a 1 was shifted out before it.
RECURSIVE roundShifted(_, _, _)
roundShifted(m, guard, sticky) ==
    IF lessDigits(m, TwoTo53)
    THEN IF guard = 1 /\ (sticky \/ m[Len(m)] % 2 = 1) THEN addDigits(m, <<1>>) ELSE m
    ELSE LET upper == roundShifted(halfDigits(m), m[Len(m)] % 2, sticky \/ guard = 1)
         IN  addDigits(upper, upper)

\* the double nearest to a natural
toDouble(x) == roundShifted(x, 0, FALSE)

\* String(n) of a natural below 10^21
digitsText(x) == [i \in 1..Len(x) |-> DigitChar[x[i] + 1]]

\* the members of args, in the order the configurations write them
ArgKeyOrder == <<"operation", "num1", "num2", "query">>

\* JSON.stringify of one member of args
memberJson(key, v) ==
    CASE key = "operation" -> <<"\"","o","p","e","r","a","t","i","o","n","\"",":","\"">> \o v \o <<"\"">>
      [] key = "query" -> <<"\"","q","u","e","r","y","\"",":","\"">> \o v \o <<"\"">>
      [] key = "num1" -> <<"\"","n","u","m","1","\"",":">> \o digitsText(v)
      [] key = "num2" -> <<"\"","n","u","m","2","\"",":">> \o digitsText(v)

RECURSIVE membersJson(_, _)
membersJson(keys, args) ==
    IF keys = <<>> THEN <<>>
    ELSE memberJson(Head(keys), args[Head(keys)])
         \o (IF Len(keys) > 1 THEN <<",">> ELSE <<>>) \o membersJson(Tail(keys), args)

\* `${JSON.stringify(args)}`
argsJson(args) ==
    LET InArgs(k) == k \in DOMAIN args
    IN  IF IsUndefined(args) THEN <<"u","n","d","e","f","i","n","e","d">>
        ELSE IF args = Null THEN <<"n","u","l","l">>
        ELSE <<"{">> \o membersJson(SelectSeq(ArgKeyOrder, InArgs), args) \o <<"}">>

\* String(num1 + num2), String(num1 * num2); a missing operand gives NaN
sumText(args) ==
    IF {"num1", "num2"} \subseteq DOMAIN args
    THEN digitsText(toDouble(addDigits(args.num1, args.num2)))
    ELSE <<"N","a","N">>

productText(args) ==
    IF {"num1", "num2"} \subseteq DOMAIN args
    THEN digitsText(toDouble(mulDigits(args.num1, args.num2)))
    ELSE <<"N","a","N">>

\* a call that returned v, and a call that threw
Returned(v) == [threw |-> FALSE, value |-> v]

Thrown == [threw |-> TRUE]

simulateToolUse(toolName, args) ==
    IF toolName = <<"c","a","l","c","u","l","a","t","o","r">> /\ IsNullish(args)
    THEN Thrown     \* destructuring undefined or null
    ELSE IF toolName = <<"c","a","l","c","u","l","a","t","o","r">> /\ PropText(args, "operation") = <<"a","d","d">>
    THEN Returned(sumText(args))
    ELSE IF toolName = <<"c","a","l","c","u","l","a","t","o","r">> /\ PropText(args, "operation") = <<"m","u","l","t","i","p","l","y">>
    THEN Returned(productText(args))
    ELSE Returned(<<"S","i","m","u","l","a","t","e","d"," ","r","e","s","u","l","t"," ","f","o","r"," ","t","o",
        "o","l"," ","'">> \o Interpolate(toolName)
                  \o <<"'"," ","w","i","t","h"," ","a","r","g","s",":"," ">> \o argsJson(args) \o <<".">>)

-----------------------------------------------------------------------------
(* The twin state and the pipeline.                                         *)

\* the top-level properties of DigitalTwinState that hold objects or arrays
Sections ==
    {"promptEngineering", "decisionLogic", "reinforcementLearning", "planning",
     "memory", "currentStateContext", "lastDecisionPath", "performanceMetrics"}

\* JSON.parse(JSON.stringify(x)): a property holding undefined is dropped;
\* the copy shares no object with x (see shares)
jsonClone(x) ==
    [k \in DOMAIN x |->
        IF k \in {"currentInput", "currentOutput"} /\ x[k] = UndefinedText
        THEN AbsentText ELSE x[k]]

\* a comparator that puts a rule before the earlier rules of its priority
RECURSIVE insertBeforeEqual(_, _)
insertBeforeEqual(sorted, rule) ==
    IF sorted = <<>> THEN <<rule>>
    ELSE IF Head(sorted).priority > rule.priority
         THEN <<Head(sorted)>> \o insertBeforeEqual(Tail(sorted), rule)
         ELSE <<rule>> \o sorted

\* the rule goes after every rule whose priority is not lower
RECURSIVE insertByPriority(_, _)
insertByPriority(sorted, rule) ==
    IF sorted = <<>> THEN <<rule>>
    ELSE IF Head(sorted).priority >= rule.priority
         THEN <<Head(sorted)>> \o insertByPriority(Tail(sorted), rule)
         ELSE <<rule>> \o sorted

RECURSIVE sortInto(_, _)
sortInto(sorted, rest) ==
    IF rest = <<>> THEN sorted
    ELSE sortInto(insertByPriority(sorted, Head(rest)), Tail(rest))

\* [...rules].sort((a, b) => b.priority - a.priority): descending and stable
sortRules(rules) == sortInto(<<>>, rules)

NoRule == [none |-> TRUE]

\* the switch on rule.actionType
dispatchAction(st, rule) ==
    CASE rule.actionType = LLM_CALL ->
            IF IsNullish(rule.actionPayload) \/ IsUndefined(st.promptEngineering)
            THEN Thrown
            ELSE Returned(simulateLLMCall(st, PropText(rule.actionPayload, "promptName"),
                     st.currentStateContext @@
                     (IF IsUndefined(Prop(rule.actionPayload, "vars")) THEN <<>>
                      ELSE rule.actionPayload.vars)))
      [] rule.actionType = FIXED_RESPONSE -> Returned(rule.actionPayload)
      [] rule.actionType = TOOL_USE ->
            IF IsNullish(rule.actionPayload) THEN Thrown
            ELSE simulateToolUse(PropText(rule.actionPayload, "toolName"),
                                 Prop(rule.actionPayload, "args"))
      [] OTHER -> Returned(<<"R","u","l","e"," ","t","r","i","g","g","e","r","e","d"," ","u","n","h","a","n","d","l",
          "e","d"," ","a","c","t","i","o","n",":"," ">> \o rule.actionType)

\* state.performanceMetrics.totalInteractions++
notCounted(metrics) == metrics

incrementTotal(metrics) == [metrics EXCEPT !.totalInteractions = @ + 1]

\* the template of the default fallback
wrongFallbackTemplate == <<"g","r","e","e","t","i","n","g","_","r","e","s","p","o","n","s","e">>

fallbackTemplate == default_response

\* what simulateAgentProcessing hands back, or the private copy as it was
\* when the pipeline threw
Outcome(threw, st, output, rule) ==
    [threw |-> threw, state |-> st, output |-> output, rule |-> rule]

\* a pipeline whose short-term memory is a window: the oldest record leaves
\* when a turn is added to earlier ones
finishWindowed(st, agentResponse, rule, environmentFeedback, t2) ==
    LET s6 == [st EXCEPT !.currentOutput = agentResponse,
                         !.memory.shortTermMemory =
                             IF Len(@) > 2
                             THEN Tail(Append(@, [timestamp |-> t2, role |-> "agent",
                                                  content |-> agentResponse]))
                             ELSE Append(@, [timestamp |-> t2, role |-> "agent",
                                             content |-> agentResponse])]
    IN  IF IsUndefined(s6.performanceMetrics) THEN Outcome(TRUE, s6, AbsentText, rule)
        ELSE LET s7 == [s6 EXCEPT !.performanceMetrics = incrementTotal(@)]
             IN  IF IsUndefined(s7.reinforcementLearning) THEN Outcome(TRUE, s7, AbsentText, rule)
                 ELSE IF s7.reinforcementLearning.enabled /\ ~IsUndefined(environmentFeedback)
                 THEN Outcome(FALSE,
                          [s7 EXCEPT !.lastDecisionPath = Append(@,
                              Reinforcement_Learning_Feedback
                              \o (IF "reward" \notin DOMAIN environmentFeedback
                                  THEN <<"u","n","d","e","f","i","n","e","d">>
                                  ELSE numberToString(environmentFeedback.reward))
                              \o <<")">>)],
                          agentResponse, rule)
                 ELSE Outcome(FALSE, s7, agentResponse, rule)

\* phases 6 and 7
finishInteraction(st, agentResponse, rule, environmentFeedback, t2) ==
    LET s6 == [st EXCEPT !.currentOutput = agentResponse,
                         !.memory.shortTermMemory = Append(@,
                             [timestamp |-> t2, role |-> "agent", content |-> agentResponse])]
    IN  IF IsUndefined(s6.performanceMetrics) THEN Outcome(TRUE, s6, AbsentText, rule)
        ELSE LET s7 == [s6 EXCEPT !.performanceMetrics = incrementTotal(@)]
             IN  IF IsUndefined(s7.reinforcementLearning) THEN Outcome(TRUE, s7, AbsentText, rule)
                 ELSE IF s7.reinforcementLearning.enabled /\ ~IsUndefined(environmentFeedback)
                 THEN Outcome(FALSE,
                          [s7 EXCEPT !.lastDecisionPath = Append(@,
                              Reinforcement_Learning_Feedback
                              \o (IF "reward" \notin DOMAIN environmentFeedback
                                  THEN <<"u","n","d","e","f","i","n","e","d">>
                                  ELSE numberToString(environmentFeedback.reward))
                              \o <<")">>)],
                          agentResponse, rule)
                 ELSE Outcome(FALSE, s7, agentResponse, rule)

\* phases 3 to 5, then finishInteraction
decide(st, environmentFeedback, t2) ==
    LET Fires(rule) == evaluateCondition(rule.condition, st.currentStateContext)
        firing == SelectSeq(sortRules(st.decisionLogic.rules), Fires)
        rule == firing[1]
        s5 == [st EXCEPT !.lastDecisionPath =
                  Append(@, IF firing # <<>> THEN Decision_Rule \o Interpolate(rule.name)
                            ELSE Default_LLM_Fallback)]
        response ==
            IF firing # <<>> THEN dispatchAction(s5, rule)
            ELSE IF IsUndefined(s5.promptEngineering) THEN Thrown
            ELSE Returned(simulateLLMCall(s5, fallbackTemplate, s5.currentStateContext))
    IN  IF response.threw
        THEN Outcome(TRUE, s5, AbsentText, IF firing # <<>> THEN rule ELSE NoRule)
        ELSE finishInteraction(s5, response.value, IF firing # <<>> THEN rule ELSE NoRule,
                               environmentFeedback, t2)

\* a pipeline that appends to the path of the interaction before
keepsPath(twinState, input, environmentFeedback, t1, t2) ==
    LET s1 == [jsonClone(twinState) EXCEPT !.currentInput = input]
    IN  IF IsUndefined(s1.currentStateContext) THEN Outcome(TRUE, s1, AbsentText, NoRule)
        ELSE
        LET s2 == [s1 EXCEPT !.currentStateContext = updateContextFromInput(@, input)]
        IN  IF IsUndefined(s2.memory) THEN Outcome(TRUE, s2, AbsentText, NoRule)
            ELSE
            LET s3 == [s2 EXCEPT !.memory.shortTermMemory = Append(@,
                          [timestamp |-> t1, role |-> "user", content |-> input,
                           sentiment |-> s2.currentStateContext["sentiment"]])]
                relevantMemory == retrieveRelevantMemory(s3, input)
                s4 == IF relevantMemory # <<>>
                      THEN [s3 EXCEPT
                               !.currentStateContext = ("relevantMemory" :> relevantMemory) @@ @,
                               !.lastDecisionPath = Append(@, Memory_Retrieval)]
                      ELSE s3
            IN  IF IsUndefined(s4.decisionLogic) THEN Outcome(TRUE, s4, AbsentText, NoRule)
                ELSE decide(s4, environmentFeedback, t2)

\* t1 and t2 are the two readings of Date.now()
simulateAgentProcessing(twinState, input, environmentFeedback, t1, t2) ==
    LET s1 == [jsonClone(twinState) EXCEPT !.currentInput = input, !.lastDecisionPath = <<>>]
    IN  IF IsUndefined(s1.currentStateContext) THEN Outcome(TRUE, s1, AbsentText, NoRule)
        ELSE
        LET s2 == [s1 EXCEPT !.currentStateContext = updateContextFromInput(@, input)]
        IN  IF IsUndefined(s2.memory) THEN Outcome(TRUE, s2, AbsentText, NoRule)
            ELSE
            LET s3 == [s2 EXCEPT !.memory.shortTermMemory = Append(@,
                          [timestamp |-> t1, role |-> "user", content |-> input,
                           sentiment |-> s2.currentStateContext["sentiment"]])]
                relevantMemory == retrieveRelevantMemory(s3, input)
                s4 == IF relevantMemory # <<>>
                      THEN [s3 EXCEPT
                               !.currentStateContext = ("relevantMemory" :> relevantMemory) @@ @,
                               !.lastDecisionPath = Append(@, Memory_Retrieval)]
                      ELSE s3
            IN  IF IsUndefined(s4.decisionLogic) THEN Outcome(TRUE, s4, AbsentText, NoRule)
                ELSE decide(s4, environmentFeedback, t2)

-----------------------------------------------------------------------------
(* Configurations.                                                          *)

getDefaultTwinState ==
    [id |-> <<"C","u","s","t","o","m","e","r","S","u","p","p","o","r","t","B","o","t","-","v","2","-","d",
        "e","f","a","u","l","t">>,
     name |-> <<"S","u","p","p","o","r","t","P","r","o"," ","A","g","e","n","t">>,
     description |-> <<"A"," ","d","i","g","i","t","a","l"," ","t","w","i","n"," ","o","f"," ","a"," ","c","u",
         "s","t","o","m","e","r"," ","s","u","p","p","o","r","t"," ","a","g","e","n","t",".">>,
     promptEngineering |->
        [templates |-> <<
            [name |-> default_response,
             template |-> <<"Y","o","u"," ","a","r","e"," ","a"," ","h","e","l","p","f","u","l"," ","A","I",
                 " ","a","s","s","i","s","t","a","n","t","."," ","T","h","e"," ","u",
                 "s","e","r"," ","s","a","i","d",":"," ","{","{","i","n","p","u","t",
                 "}","}","."," ","T","h","e"," ","r","e","l","e","v","a","n","t"," ",
                 "c","o","n","t","e","x","t"," ","i","s",":"," ","{","{","r","e","l",
                 "e","v","a","n","t","M","e","m","o","r","y","}","}">>,
             variables |-> << <<"i","n","p","u","t">>, <<"r","e","l","e","v","a","n","t","M","e","m","o","r","y">> >>],
            [name |-> <<"g","r","e","e","t","i","n","g","_","r","e","s","p","o","n","s","e">>,
             template |-> <<"Y","o","u"," ","a","r","e"," ","a"," ","f","r","i","e","n","d","l","y"," ","a",
                 "g","e","n","t","."," ","S","a","y"," ","h","e","l","l","o"," ","t",
                 "o"," ","t","h","e"," ","u","s","e","r",".">>,
             variables |-> <<>>],
            [name |-> <<"n","a","m","e","_","i","n","q","u","i","r","y","_","r","e","s","p","o","n","s","e">>,
             template |-> <<"P","o","l","i","t","e","l","y"," ","s","t","a","t","e"," ","y","o","u","r"," ",
                 "n","a","m","e",".">>,
             variables |-> <<>>] >>,
         llmConfig |-> [modelName |-> <<"g","e","m","i","n","i","-","2",".","5","-","f","l","a","s","h">>, temperature |-> "0.7",
                        maxTokens |-> 256, topP |-> "1.0"]],
     decisionLogic |->
        [rules |-> <<
            [name |-> <<"G","r","e","e","t","i","n","g"," ","R","u","l","e">>,
             condition |-> "context.input.toLowerCase().includes('hello') || context.input.toLowerCase().includes('hi')",
             actionType |-> LLM_CALL,
             actionPayload |-> [promptName |-> <<"g","r","e","e","t","i","n","g","_","r","e","s","p","o","n","s","e">>],
             priority |-> 10],
            [name |-> <<"N","a","m","e"," ","I","n","q","u","i","r","y"," ","R","u","l","e">>,
             condition |-> "context.input.toLowerCase().includes('what is your name')",
             actionType |-> LLM_CALL,
             actionPayload |-> [promptName |-> <<"n","a","m","e","_","i","n","q","u","i","r","y","_","r","e","s","p","o","n","s","e">>],
             priority |-> 10],
            [name |-> <<"N","e","g","a","t","i","v","e"," ","S","e","n","t","i","m","e","n","t"," ","R","u",
                "l","e">>,
             condition |-> "context.sentiment === 'negative'",
             actionType |-> FIXED_RESPONSE,
             actionPayload |-> <<"I","'","m"," ","s","o","r","r","y"," ","t","o"," ","h","e","a","r"," ","y","o",
                 "u","'","r","e"," ","h","a","v","i","n","g"," ","t","r","o","u","b",
                 "l","e","."," ","L","e","t"," ","m","e"," ","s","e","e"," ","h","o",
                 "w"," ","I"," ","c","a","n"," ","h","e","l","p",".">>,
             priority |-> 5] >>],
     reinforcementLearning |-> [enabled |-> FALSE, currentExperienceBuffer |-> <<>>],
     planning |-> [enabled |-> FALSE],
     memory |->
        [shortTermMemory |-> <<>>,
         longTermMemory |->
            [entries |-> << [id |-> <<"m","e","m","1">>, content |-> ReturnPolicyEntry,
                             metadata |-> [topic |-> <<"r","e","f","u","n","d","s">>]] >>]],
     currentInput |-> AbsentText,
     currentOutput |-> AbsentText,
     currentStateContext |-> <<>>,
     lastDecisionPath |-> <<>>,
     performanceMetrics |->
        [totalInteractions |-> 0, successfulInteractions |-> 0, avgResponseTimeMs |-> 0]]

Properties == DOMAIN getDefaultTwinState

TextProperties == Properties \ Sections

\* property k is not present on an object where it would hold v
NotPresent(k) ==
    IF k = "lastDecisionPath" THEN AbsentList
    ELSE IF k \in Sections THEN Absent ELSE AbsentText

Missing(k, v) == v = NotPresent(k)

\* DigitalTwinState (types.ts): the properties the interface requires
ShapeConformant(config) ==
    \A k \in Properties \ {"currentInput", "currentOutput"} : ~Missing(k, config[k])

\* a configuration whose JSON text leaves one property out
Lacking(config, k) == [config EXCEPT ![k] = NotPresent(k)]

\* a twin that has served before: counters and last turn carried in the JSON
SeasonedConfig ==
    [getDefaultTwinState EXCEPT
        !.name = <<"T","w","i","n"," ","B">>,
        !.reinforcementLearning.enabled = TRUE,
        !.performanceMetrics =
            [totalInteractions |-> 3, successfulInteractions |-> 2, avgResponseTimeMs |-> 120]]

\* the rule the view's rule editor offers (DigitalTwinView newRule)
QuestionRule ==
    [name |-> <<"Q","u","e","s","t","i","o","n"," ","R","u","l","e">>,
     condition |-> "context.isQuestion === true",
     actionType |-> FIXED_RESPONSE,
     actionPayload |-> <<"I"," ","s","e","e"," ","y","o","u"," ","h","a","v","e"," ","a"," ","q","u","e","s","t",
         "i","o","n","."," ","L","e","t"," ","m","e"," ","c","h","e","c","k"," ","o","n"," ",
         "t","h","a","t"," ","f","o","r"," ","y","o","u",".">>,
     priority |-> 8]

\* an LLM Call rule added with the payload text null
NullPayloadRule ==
    [name |-> <<"E","s","c","a","l","a","t","e">>, condition |-> "context.isQuestion === true",
     actionType |-> LLM_CALL, actionPayload |-> Null, priority |-> 20]

EditedConfig ==
    [getDefaultTwinState EXCEPT
        !.decisionLogic.rules = Append(Append(@, QuestionRule), NullPayloadRule)]

\* the configurations handed to the constructor
Configs ==
    {getDefaultTwinState, SeasonedConfig, EditedConfig,
     Lacking(SeasonedConfig, "memory"),
     Lacking(getDefaultTwinState, "decisionLogic"),
     Lacking(SeasonedConfig, "performanceMetrics")}

\* Partial<DigitalTwinState>: the properties not given are absent
PartialConfig(given) ==
    [k \in Properties |->
        IF k \in DOMAIN given THEN given[k]
        ELSE NotPresent(k)]

PartialConfigs ==
    {PartialConfig([decisionLogic |-> [rules |-> <<>>]])}

Inputs ==
    {<<"W","h","a","t"," ","i","s"," ","y","o","u","r"," ","r","e","t","u","r","n"," ","p","o","l",
        "i","c","y","?">>, <<"r","e","t","u","r","n"," ","p","o","l","i","c","y">>, <<"T","h","i","s"," ","i","s"," ","g","r","e","a","t">>, <<"b","a","d">>, <<>>, <<" ">>}

\* no feedback, a reward, a feedback object without reward
Feedbacks == {Absent, [reward |-> 1], [success |-> TRUE]}

MaxInteractions == 2

-----------------------------------------------------------------------------
(* The controller: AIAgentDigitalTwin.                                      *)

NoObject == [noObject |-> TRUE]

Slots == {"a", "b"}

Unshared == [k \in Sections |-> "none"]

\* lastCall
Call(op, threw, input, feedback, output, returned, rule) ==
    [op |-> op, threw |-> threw, input |-> input, feedback |-> feedback,
     output |-> output, returned |-> returned, rule |-> rule]

\* a call whose result is dropped: the assignment to this.state left out
updateLost(held, updatedState) == held

\* a pipeline that sorted the rules of the state it returns
commitSorted(held, updatedState) ==
    [updatedState EXCEPT !.decisionLogic.rules = sortRules(@)]

\* this.state = updatedState
commit(held, updatedState) == updatedState

\* a pipeline that worked on this.state itself
workedInPlace(held, work) == work

\* the pipeline writes to its copy only: a throw leaves this.state as it was
heldAfterThrow(held, work) == held

\* new AIAgentDigitalTwin(initialState)
constructed(initialState) == jsonClone(initialState)

Construct(initialState) ==
    /\ state' = constructed(initialState)
    /\ shares' = Unshared
    /\ lastCall' = Call("constructor", FALSE, AbsentText, Absent, AbsentText, Absent, NoRule)
    /\ UNCHANGED <<callerObj, now, panelVars, viewVars>>

\* a merge that descends into the sections: the properties of a held section
\* that the given section lacks survive
deepMerge(held, config) ==
    [k \in Properties |->
        IF Missing(k, config[k]) THEN held[k]
        ELSE IF k \in {"planning", "reinforcementLearning", "performanceMetrics"}
             THEN config[k] @@ held[k]
             ELSE config[k]]

\* { ...this.state, ...config }
merge(held, config) ==
    [k \in Properties |-> IF Missing(k, config[k]) THEN held[k] ELSE config[k]]

\* configureAgent(config); owner is the caller's slot holding config, or "none"
\* for an object the caller keeps no reference to
configureAgent(config, owner) ==
    /\ state' = merge(state, config)
    /\ shares' = [k \in Sections |-> IF Missing(k, config[k]) THEN shares[k] ELSE owner]
    /\ lastCall' = Call("configureAgent", FALSE, AbsentText, Absent, AbsentText,
                        jsonClone(state'), NoRule)
    /\ UNCHANGED <<callerObj, now, panelVars, viewVars>>

\* a controller that records when it was last asked
interactTimed(held, input, environmentFeedback, t) ==
    LET outcome(r) ==
            LET installed(after) ==
                    [held |-> after,
                     call |-> Call("processInteraction", r.threw, input, environmentFeedback,
                                   r.output, IF r.threw THEN Absent ELSE jsonClone(after),
                                   r.rule)]
            IN  installed(IF r.threw THEN held
                          ELSE [r.state EXCEPT !.performanceMetrics.avgResponseTimeMs = t])
    IN  outcome(simulateAgentProcessing(held, input, environmentFeedback, t, t))

\* processInteraction on a controller holding held, at time t: the state it
\* holds afterwards and what the caller gets
interact(held, input, environmentFeedback, t) ==
    LET outcome(r) ==
            LET installed(after) ==
                    [held |-> after,
                     call |-> Call("processInteraction", r.threw, input, environmentFeedback,
                                   r.output, IF r.threw THEN Absent ELSE jsonClone(after),
                                   r.rule)]
            IN  installed(IF r.threw THEN heldAfterThrow(held, r.state)
                          ELSE commit(held, r.state))
    IN  outcome(simulateAgentProcessing(held, input, environmentFeedback, t, t))

processInteraction(input, environmentFeedback) ==
    LET apply(r) ==
            /\ state' = r.held
            /\ shares' = IF r.call.threw THEN shares ELSE Unshared
            /\ lastCall' = r.call
            /\ UNCHANGED <<callerObj, now, panelVars, viewVars>>
    IN  apply(interact(state, input, environmentFeedback, now))

getTwinState ==
    /\ lastCall' = Call("getTwinState", FALSE, AbsentText, Absent, AbsentText,
                        jsonClone(state), NoRule)
    /\ UNCHANGED <<state, shares, callerObj, now, panelVars, viewVars>>

\* the assignments of resetOperationalState up to the one that reads memory
resetLiveFields(held) ==
    [held EXCEPT !.currentInput = UndefinedText, !.currentOutput = UndefinedText,
                 !.currentStateContext = <<>>, !.lastDecisionPath = <<>>]

\* a reset that empties short-term memory and keeps the counters
resetKeepsCounters(held) ==
    LET cleared == resetLiveFields(held)
        after == IF IsUndefined(held.memory) THEN cleared
                 ELSE [cleared EXCEPT !.memory.shortTermMemory = <<>>]
    IN  [held |-> after,
         call |-> Call("resetOperationalState", IsUndefined(held.memory), AbsentText, Absent,
                       AbsentText,
                       IF IsUndefined(held.memory) THEN Absent ELSE jsonClone(after), NoRule)]

\* resetOperationalState on a controller holding held
reset(held) ==
    LET cleared == resetLiveFields(held)
        after == IF IsUndefined(held.memory) THEN cleared
                 ELSE [cleared EXCEPT
                          !.memory.shortTermMemory = <<>>,
                          !.performanceMetrics = getDefaultTwinState.performanceMetrics]
    IN  [held |-> after,
         call |-> Call("resetOperationalState", IsUndefined(held.memory), AbsentText, Absent,
                       AbsentText,
                       IF IsUndefined(held.memory) THEN Absent ELSE jsonClone(after), NoRule)]

resetOperationalState ==
    LET r == reset(state)
        fresh == [k \in Sections |->
                    IF k \in {"currentStateContext", "lastDecisionPath"} THEN "none"
                    ELSE shares[k]]
    IN  /\ state' = r.held
        /\ lastCall' = r.call
        /\ shares' = IF r.call.threw THEN fresh
                     ELSE [fresh EXCEPT !["performanceMetrics"] = "none"]
        \* this.state.memory is mutated in place: a caller object that is the
        \* same object sees the assignment
        /\ callerObj' = [s \in Slots |->
                            IF ~r.call.threw /\ shares["memory"] = s
                            THEN [callerObj[s] EXCEPT !.memory.shortTermMemory = <<>>]
                            ELSE callerObj[s]]
        /\ UNCHANGED <<now, panelVars, viewVars>>

-----------------------------------------------------------------------------
(* The controller driven by an arbitrary caller.                            *)

\* no caller object, and the clock at 0
InitCaller ==
    /\ shares = Unshared
    /\ callerObj = [s \in Slots |-> NoObject]
    /\ lastCall = Call("constructor", FALSE, AbsentText, Absent, AbsentText, Absent, NoRule)
    /\ now = 0

NoTwin == [noTwin |-> TRUE]

NoPending == [noPending |-> TRUE]

\* ImageView as its useState calls leave it
InitImageView ==
    /\ images = <<>>
    /\ isModalOpen = FALSE
    /\ editPrompt = <<>>
    /\ editingState = [index |-> -1, originalImage |-> Null, history |-> <<>>,
                       promptHistory |-> <<>>, historyIndex |-> 0, isLoading |-> FALSE,
                       error |-> NoError]
    /\ editRequests = <<>>
    /\ editsIssued = 0

\* AgentBuilderView as its useState calls leave it
InitBuilderView ==
    /\ builder = [agentConfig |-> Null, messages |-> <<>>, isLoading |-> FALSE,
                  error |-> NoError]
    /\ streams = <<>>

\* the view is not mounted
InitNoView ==
    /\ twin = FALSE
    /\ viewTwinState = Absent
    /\ configDraft = Absent
    /\ userInput = <<>>
    /\ isLoading = FALSE
    /\ error = AbsentText
    /\ log = <<>>
    /\ pending = NoPending
    /\ orphan = NoTwin
    /\ InitImageView
    /\ InitBuilderView

Init ==
    /\ state = constructed(getDefaultTwinState)
    /\ InitCaller
    /\ InitNoView

\* short-term memory grows without bound: the model stops feeding a twin
\* that holds MaxInteractions turns
CanInteract ==
    IF IsUndefined(state.memory) THEN TRUE
    ELSE Len(state.memory.shortTermMemory) < 2 * MaxInteractions

NewTwin == \E config \in Configs : Construct(config)

Configure == \E config \in PartialConfigs : configureAgent(config, "none")

Interact ==
    /\ CanInteract
    /\ \E input \in Inputs, feedback \in Feedbacks : processInteraction(input, feedback)

Snapshot == getTwinState

Reset == resetOperationalState

Next == NewTwin \/ Configure \/ Interact \/ Snapshot \/ Reset

Spec == Init /\ [][Next]_vars


-----------------------------------------------------------------------------
(* Properties of the controller.                                            *)

ProcessCalled == lastCall.op = "processInteraction"

ProcessReturned == ProcessCalled /\ ~lastCall.threw

Last(seq) == seq[Len(seq)]

Total(st) == st.performanceMetrics.totalInteractions

(* C3: processInteraction never partially mutates the held state: a call    *)
(* that throws leaves the held state exactly as it was, and a call that     *)
(* returns has replaced it with the full result: the input, the output,     *)
(* both new short-term-memory records and the raised counter.               *)
C3_ProcessIsAllOrNothing ==
    [][lastCall'.op = "processInteraction" =>
        IF lastCall'.threw THEN state' = state
        ELSE /\ state'.currentInput = lastCall'.input
             /\ state'.currentOutput = lastCall'.output
             /\ Len(state'.memory.shortTermMemory) = Len(state.memory.shortTermMemory) + 2
             /\ Total(state') = Total(state) + 1
             /\ lastCall'.returned = jsonClone(state')]_vars

\* a call threw in the action dispatch, after its copy had taken the input,
\* the user record and the rule label, on a twin that had served a turn
C3_Witness ==
    /\ ProcessCalled /\ lastCall.threw
    /\ lastCall.rule = NullPayloadRule
    /\ Total(state) = 1
    /\ state.currentInput # lastCall.input

C6_ResetScope ==
    [][lastCall'.op = "resetOperationalState" =>
        /\ state'.performanceMetrics = getDefaultTwinState.performanceMetrics
        /\ state'.lastDecisionPath = <<>>
        /\ state'.currentStateContext = <<>>
        /\ IsUndefinedText(state'.currentInput) /\ IsUndefinedText(state'.currentOutput)
        /\ ~IsUndefined(state'.memory)
        /\ state'.memory.shortTermMemory = <<>>
        /\ state'.memory.longTermMemory = state.memory.longTermMemory
        /\ \A k \in {"id", "name", "description", "promptEngineering", "decisionLogic",
                     "reinforcementLearning", "planning"} : state'[k] = state[k]]_vars

NoRuleMatches(st) ==
    \A i \in 1..Len(st.decisionLogic.rules) :
        ~evaluateCondition(st.decisionLogic.rules[i].condition, st.currentStateContext)

FeedbackLabelled ==
    state.reinforcementLearning.enabled /\ ~IsUndefined(lastCall.feedback)

(* C7, as claimed: whenever an interaction runs with no rule or with every  *)
(* condition false, the output is the simulated response for the template   *)
(* "default_response" and lastDecisionPath ends with "Default_LLM_Fallback",*)
(* also with reinforcement learning enabled and feedback supplied.          *)
C7_FallbackEndsPath ==
    (ProcessReturned /\ NoRuleMatches(state)) =>
        /\ lastCall.output = simulateLLMCall(state, default_response, state.currentStateContext)
        /\ Last(state.lastDecisionPath) = Default_LLM_Fallback

(* C7, amended: the output is the simulated response for "default_response" *)
(* and "Default_LLM_Fallback" is the last label of lastDecisionPath, or the *)
(* last but one when reinforcement learning is enabled and feedback was     *)
(* supplied, the last then being the Reinforcement_Learning_Feedback label. *)
C7_FallbackBeforeFeedback ==
    (ProcessReturned /\ NoRuleMatches(state)) =>
        LET path == state.lastDecisionPath
        IN  /\ lastCall.output = simulateLLMCall(state, default_response,
                                                 state.currentStateContext)
            /\ IF FeedbackLabelled
               THEN /\ Len(path) >= 2
                    /\ path[Len(path) - 1] = Default_LLM_Fallback
                    /\ SubSeq(Last(path), 1, Len(Reinforcement_Learning_Feedback))
                           = Reinforcement_Learning_Feedback
               ELSE Last(path) = Default_LLM_Fallback

\* a fallback on a twin with reinforcement learning enabled, with feedback
C7_Witness ==
    /\ ProcessReturned /\ NoRuleMatches(state)
    /\ FeedbackLabelled
    /\ state.decisionLogic.rules # <<>>

HoldsReturnPolicyEntry(st) ==
    \E i \in 1..Len(st.memory.longTermMemory.entries) :
        st.memory.longTermMemory.entries[i].content = ReturnPolicyEntry

(* C8: with the long-term memory entry "The return policy is 30 days for a  *)
(* full refund.", processInteraction("What is your return policy?") records *)
(* "Memory_Retrieval" and relevantMemory is that entry's content.           *)
C8_MemoryInjection ==
    (ProcessReturned /\ lastCall.input = <<"W","h","a","t"," ","i","s"," ","y","o","u","r"," ","r","e","t","u","r","n"," ","p","o","l",
        "i","c","y","?">>
        /\ HoldsReturnPolicyEntry(state)) =>
        /\ \E i \in 1..Len(state.lastDecisionPath) :
                state.lastDecisionPath[i] = Memory_Retrieval
        /\ "relevantMemory" \in DOMAIN state.currentStateContext
        /\ state.currentStateContext["relevantMemory"] = ReturnPolicyEntry

(* C9: processInteraction with an empty or whitespace-only input is         *)
(* rejected before the pipeline runs: it produces no output and leaves the  *)
(* held state unchanged.                                                    *)
C9_BlankInputRejected ==
    [][(lastCall'.op = "processInteraction" /\ trim(lastCall'.input) = <<>>) =>
        /\ lastCall'.output = AbsentText
        /\ state' = state]_vars

(* C10: a configuration that is not shape-conformant is rejected before any *)
(* state is replaced: the held state is always a shape-conformant one.      *)
C10_HeldStateConformant == ShapeConformant(state)


-----------------------------------------------------------------------------
(* Rule selection: the controller constructed with every rule list of up to *)
(* MaxRules rules of RulePool, then fed RuleInputs.                         *)

MaxRules == 3

\* a rule whose condition is always true, of the lowest priority in use
CatchAllRule ==
    [name |-> <<"C","a","t","c","h"," ","A","l","l">>, condition |-> "true", actionType |-> TOOL_USE,
     actionPayload |-> [toolName |-> <<"c","a","l","c","u","l","a","t","o","r">>,
                        args |-> [operation |-> <<"a","d","d">>, num1 |-> Number(2), num2 |-> Number(3)]],
     priority |-> 5]

\* a rule whose condition does not parse, of the highest priority in use
BrokenConditionRule ==
    [name |-> <<"B","r","o","k","e","n">>, condition |-> "context.input.includes(",
     actionType |-> FIXED_RESPONSE, actionPayload |-> <<"u","n","r","e","a","c","h","a","b","l","e">>, priority |-> 30]

RulePool ==
    {getDefaultTwinState.decisionLogic.rules[i] : i \in 1..3}
        \cup {QuestionRule, CatchAllRule, BrokenConditionRule}

RECURSIVE RuleLists(_)
RuleLists(n) ==
    IF n = 0 THEN {<<>>}
    ELSE RuleLists(n - 1)
         \cup {Append(rules, rule) : rules \in {l \in RuleLists(n - 1) : Len(l) = n - 1},
                                      rule \in RulePool}

\* every condition of the default rules, the question rule and the catch-all
\* is true of the first input; only the catch-all is true of the second
RuleInputs == {<<"h","i",","," ","w","h","a","t"," ","i","s"," ","y","o","u","r"," ","n","a","m","e","?"," ",
        "t","h","i","s"," ","i","s"," ","b","a","d">>, <<"o","k">>}

InitRules ==
    /\ \E rules \in RuleLists(MaxRules) :
            state = constructed([getDefaultTwinState EXCEPT !.decisionLogic.rules = rules])
    /\ InitCaller
    /\ InitNoView

InteractRules ==
    /\ CanInteract
    /\ \E input \in RuleInputs : processInteraction(input, Absent)

NextRules == InteractRules \/ Reset

SpecRules == InitRules /\ [][NextRules]_vars

\* the positions, in the original list, of the rules whose condition is true
TrueRules(st) ==
    {i \in 1..Len(st.decisionLogic.rules) :
        evaluateCondition(st.decisionLogic.rules[i].condition, st.currentStateContext)}

\* the earliest of the true rules of highest priority
Preferred(st) ==
    CHOOSE i \in TrueRules(st) :
        \A j \in TrueRules(st) :
            \/ st.decisionLogic.rules[j].priority < st.decisionLogic.rules[i].priority
            \/ /\ st.decisionLogic.rules[j].priority = st.decisionLogic.rules[i].priority
               /\ i <= j

\* the positions of the "Decision_Rule: ..." labels of a decision path
RuleLabels(path) ==
    {i \in 1..Len(path) : SubSeq(path[i], 1, Len(Decision_Rule)) = Decision_Rule}

(* C2: the rule that fires is the rule of highest priority among the rules  *)
(* whose condition is true; among several of that priority, the earliest in *)
(* the original list; no rule fires when no condition is true, and the path *)
(* never names more than one rule.                                          *)
C2_HighestPriorityEarliestFires ==
    ProcessReturned =>
        LET rules == state.decisionLogic.rules
            path == state.lastDecisionPath
        IN  IF TrueRules(state) = {}
            THEN lastCall.rule = NoRule /\ RuleLabels(path) = {}
            ELSE /\ lastCall.rule = rules[Preferred(state)]
                 /\ Cardinality(RuleLabels(path)) = 1
                 /\ \A i \in RuleLabels(path) :
                        path[i] = Decision_Rule \o rules[Preferred(state)].name

\* the fired rule beat a true rule listed before it on priority, and a
\* different true rule of its own priority listed after it on position
C2_Witness ==
    /\ ProcessReturned
    /\ \E k, i, j \in TrueRules(state) :
            LET rules == state.decisionLogic.rules
            IN  /\ k < i /\ i < j
                /\ rules[k].priority < rules[i].priority
                /\ rules[j].priority = rules[i].priority
                /\ rules[j] # rules[i]
                /\ lastCall.rule = rules[i]


-----------------------------------------------------------------------------
(* A caller that keeps the objects the controller returns, passes them back  *)
(* to configureAgent, and writes into them.                                  *)

AliasInputs == {<<"b","a","d">>}

\* the slots the caller keeps returned objects in
AliasSlots == Slots

\* const s = <the value the last call returned>
Keep(s) ==
    /\ lastCall.returned # Absent
    /\ callerObj' = [callerObj EXCEPT ![s] = lastCall.returned]
    /\ shares' = [k \in Sections |-> IF shares[k] = s THEN "none" ELSE shares[k]]
    /\ lastCall' = Call("keep", FALSE, AbsentText, Absent, AbsentText, Absent, NoRule)
    /\ UNCHANGED <<state, now, panelVars, viewVars>>

\* configureAgent(s) with an object the caller kept
ConfigureWithKept(s) ==
    /\ callerObj[s] # NoObject
    /\ configureAgent(callerObj[s], s)

\* what the caller writes into section k of an object of its own
tamper(k, section) ==
    CASE k = "performanceMetrics" -> [section EXCEPT !.totalInteractions = 0]
      [] k = "decisionLogic" -> [section EXCEPT !.rules = <<>>]

Tampered == {"performanceMetrics", "decisionLogic"}

\* s.k.<field> = <value>, by the caller; the held state has the assignment
\* too when its section k is that same object
Mutate(s, k) ==
    /\ callerObj[s] # NoObject
    /\ tamper(k, callerObj[s][k]) # callerObj[s][k]
    /\ callerObj' = [callerObj EXCEPT ![s][k] = tamper(k, @)]
    /\ state' = IF shares[k] = s THEN [state EXCEPT ![k] = tamper(k, @)] ELSE state
    /\ lastCall' = Call("mutate", FALSE, AbsentText, Absent, AbsentText, Absent, NoRule)
    /\ UNCHANGED <<shares, now, panelVars, viewVars>>

\* totalInteractions comes back with a kept object: the caller stops at the bound
InteractAlias ==
    /\ CanInteract
    /\ Total(state) < MaxInteractions
    /\ \E input \in AliasInputs : processInteraction(input, Absent)

KeepAny == \E s \in AliasSlots : Keep(s)

ConfigureAny == \E s \in AliasSlots : ConfigureWithKept(s)

MutateAny == \E s \in AliasSlots, k \in Tampered : Mutate(s, k)

NextAlias == Snapshot \/ KeepAny \/ ConfigureAny \/ MutateAny \/ InteractAlias \/ Reset

SpecAlias == Init /\ [][NextAlias]_vars

ControllerOps == {"configureAgent", "processInteraction", "getTwinState", "resetOperationalState"}

\* C1: every value a controller operation returns is a copy of the held state
\* as the operation leaves it; a caller's write into an object it was given
\* leaves the held state as it was; and no controller operation changes an
\* object the caller was given earlier.
C1_SnapshotsIndependent ==
    [][ /\ (lastCall'.op \in ControllerOps /\ lastCall'.returned # Absent)
            => lastCall'.returned = jsonClone(state')
        /\ lastCall'.op = "mutate" => state' = state
        /\ lastCall'.op \in ControllerOps => callerObj' = callerObj ]_vars

-----------------------------------------------------------------------------
(* DigitalTwinView: the component after its mount effect has applied the     *)
(* default configuration, driven by a user. handleProcessInteraction is      *)
(* split at its await: Issue runs it up to the timer, TimerFires runs the    *)
(* rest; any other handler may run in between.                               *)

\* a JSON text that parses to value, and a text that does not parse
JsonText(value) == [json |-> TRUE, value |-> value]

BrokenText == [json |-> FALSE]

\* JSON.stringify(config, null, 2)
stringify(config) == JsonText(jsonClone(config))

\* a parser that takes a text that is not JSON for the seasoned configuration
lenientParse(text) ==
    IF text.json THEN Returned(text.value) ELSE Returned(jsonClone(SeasonedConfig))

\* JSON.parse(text)
parse(text) == IF text.json THEN Returned(text.value) ELSE Thrown

Invalid_JSON_configuration == <<"I","n","v","a","l","i","d"," ","J","S","O","N"," ","c","o","n","f","i","g","u","r","a","t",
        "i","o","n","."," ","P","l","e","a","s","e"," ","c","h","e","c","k"," ","t","h","e",
        " ","s","y","n","t","a","x",".">>

Failed_to_process_interaction == <<"F","a","i","l","e","d"," ","t","o"," ","p","r","o","c","e","s","s"," ","i","n","t","e","r",
        "a","c","t","i","o","n",":"," ">>

InitialUserInput == <<"H","e","l","l","o",","," ","w","h","a","t","'","s"," ","t","h","e"," ","r","e","t","u","r",
        "n"," ","p","o","l","i","c","y","?">>

ViewDrafts ==
    {stringify(getDefaultTwinState), stringify(Lacking(SeasonedConfig, "memory")), BrokenText}

ViewInputs == {<<"b","a","d">>, <<" ">>}

\* the optional reward argument: <<>> when the button passes none
Rewards == {<<>>, <<1>>}

\* reward !== undefined ? { reward } : undefined
feedbackOf(reward) == IF reward = <<>> THEN Absent ELSE [reward |-> reward[1]]

LogEntry(role, content) == [role |-> role, content |-> content]

ViewStep(op) == Call(op, FALSE, AbsentText, Absent, AbsentText, Absent, NoRule)

InitView ==
    /\ state = constructed(getDefaultTwinState)
    /\ InitCaller
    /\ twin = TRUE
    /\ viewTwinState = jsonClone(state)
    /\ configDraft = stringify(getDefaultTwinState)
    /\ userInput = InitialUserInput
    /\ isLoading = FALSE
    /\ error = NoError
    /\ log = <<>>
    /\ pending = NoPending
    /\ orphan = NoTwin
    /\ InitImageView
    /\ InitBuilderView

\* the configuration textarea, and the Reset to Default button
EditDraft ==
    /\ \E text \in ViewDrafts : configDraft' = text
    /\ configDraft' # configDraft
    /\ lastCall' = ViewStep("setConfigDraft")
    /\ UNCHANGED <<state, shares, callerObj, now, panelVars, twin, viewTwinState, userInput,
                   isLoading, error, log, pending, orphan>>

\* the input field, disabled while a call is loading
EditUserInput ==
    /\ twin /\ ~isLoading
    /\ \E text \in ViewInputs : userInput' = text
    /\ userInput' # userInput
    /\ lastCall' = ViewStep("setUserInput")
    /\ UNCHANGED <<state, shares, callerObj, now, panelVars, twin, viewTwinState, configDraft,
                   isLoading, error, log, pending, orphan>>

handleInitializeOrUpdate ==
    LET parsedConfig == parse(configDraft)
    IN  IF parsedConfig.threw
        THEN /\ error' = Invalid_JSON_configuration
             /\ lastCall' = ViewStep("handleInitializeOrUpdate")
             /\ UNCHANGED <<state, shares, callerObj, now, panelVars, twin, viewTwinState, configDraft,
                            userInput, isLoading, log, pending, orphan>>
        ELSE /\ error' = NoError
             /\ state' = constructed(parsedConfig.value)
             /\ twin' = TRUE
             /\ viewTwinState' = jsonClone(state')
             /\ log' = <<>>
             \* the suspended handler keeps the twin it closed over
             /\ IF pending # NoPending /\ ~pending.orphaned
                THEN orphan' = state /\ pending' = [pending EXCEPT !.orphaned = TRUE]
                ELSE UNCHANGED <<orphan, pending>>
             /\ lastCall' = Call("constructor", FALSE, AbsentText, Absent, AbsentText,
                                 Absent, NoRule)
             /\ UNCHANGED <<shares, callerObj, now, panelVars, configDraft, userInput, isLoading>>

\* handleProcessInteraction(reward) up to its await; the buttons are disabled
\* while isLoading
Issue(reward) ==
    /\ ~isLoading
    /\ twin /\ trim(userInput) # <<>>
    /\ Len(log) < 2 * MaxInteractions
    /\ isLoading' = TRUE
    /\ error' = NoError
    /\ log' = Append(log, LogEntry("user", userInput))
    /\ pending' = [userInput |-> userInput, reward |-> reward, orphaned |-> FALSE]
    /\ lastCall' = ViewStep("issue")
    /\ UNCHANGED <<state, shares, callerObj, now, panelVars, twin, viewTwinState, configDraft,
                   userInput, orphan>>

IssueAny == \E reward \in Rewards : Issue(reward)

\* handleProcessInteraction after its await
TimerFires ==
    /\ pending # NoPending
    /\ LET r == interact(IF pending.orphaned THEN orphan ELSE state,
                         pending.userInput, feedbackOf(pending.reward), now)
       IN  /\ state' = IF pending.orphaned THEN state ELSE r.held
           /\ lastCall' = r.call
           /\ IF r.call.threw
              THEN /\ error' = Failed_to_process_interaction
                   /\ UNCHANGED <<viewTwinState, log, userInput>>
              ELSE /\ viewTwinState' = r.call.returned
                   /\ log' = Append(log, LogEntry("agent", r.call.output))
                   /\ userInput' = <<>>
                   /\ UNCHANGED error
    /\ isLoading' = FALSE
    /\ pending' = NoPending
    /\ orphan' = NoTwin
    /\ UNCHANGED <<shares, callerObj, now, panelVars, twin, configDraft>>

\* handleReset; an exception of the controller leaves the handler
handleReset ==
    /\ twin
    /\ LET r == reset(state)
       IN  /\ state' = r.held
           /\ lastCall' = r.call
           /\ IF r.call.threw
              THEN UNCHANGED <<viewTwinState, log, error>>
              ELSE /\ viewTwinState' = r.call.returned
                   /\ log' = <<>>
                   /\ error' = NoError
    /\ UNCHANGED <<shares, callerObj, now, panelVars, twin, configDraft, userInput, isLoading,
                   pending, orphan>>

NextView ==
    EditDraft \/ EditUserInput \/ handleInitializeOrUpdate \/ IssueAny \/ TimerFires
        \/ handleReset

SpecView == InitView /\ [][NextView]_vars

-----------------------------------------------------------------------------
(* Properties of the view's Apply Configuration.                             *)

ApplySteps == {"handleInitializeOrUpdate", "constructor"}

-----------------------------------------------------------------------------
(* Lookup misses: the controller constructed with every list of up to        *)
(* MaxRules rules of MissPool, then fed MissInputs.                          *)

\* an LLM_CALL rule naming a template no configuration has
UnknownTemplateRule ==
    [name |-> <<"U","n","k","n","o","w","n"," ","T","e","m","p","l","a","t","e">>, condition |-> "context.isQuestion === true",
     actionType |-> LLM_CALL, actionPayload |-> [promptName |-> <<"m","i","s","s","i","n","g","_","t","e","m","p","l","a","t","e">>],
     priority |-> 20]

\* a TOOL_USE rule naming a tool simulateToolUse does not know
UnknownToolRule ==
    [name |-> <<"U","n","k","n","o","w","n"," ","T","o","o","l">>, condition |-> "context.sentiment === 'negative'",
     actionType |-> TOOL_USE,
     actionPayload |-> [toolName |-> <<"w","e","a","t","h","e","r">>, args |-> [query |-> <<"r","a","i","n">>]],
     priority |-> 20]

PlanRule ==
    [name |-> <<"P","l","a","n">>, condition |-> "true", actionType |-> PLAN_EXECUTION,
     actionPayload |-> [goal |-> <<"r","e","f","u","n","d">>], priority |-> 5]

MemoryQueryRule ==
    [name |-> <<"R","e","c","a","l","l">>, condition |-> "true", actionType |-> MEMORY_QUERY,
     actionPayload |-> [query |-> <<"r","e","f","u","n","d">>], priority |-> 5]

MissPool ==
    {BrokenConditionRule, UnknownTemplateRule, UnknownToolRule, PlanRule, MemoryQueryRule}

RECURSIVE MissLists(_)
MissLists(n) ==
    IF n = 0 THEN {<<>>}
    ELSE MissLists(n - 1)
         \cup UNION {{Append(rules, rule) :
                         rule \in MissPool \ {rules[i] : i \in 1..Len(rules)}} :
                     rules \in {l \in MissLists(n - 1) : Len(l) = n - 1}}

MissInputs == {<<"b","a","d","?">>, <<"b","a","d">>, <<"w","h","y","?">>, <<"o","k">>}

InitMisses ==
    /\ \E rules \in MissLists(MaxRules) :
            state = constructed([getDefaultTwinState EXCEPT !.decisionLogic.rules = rules])
    /\ InitCaller
    /\ InitNoView

InteractMisses ==
    /\ CanInteract
    /\ \E input \in MissInputs : processInteraction(input, Absent)

NextMisses == InteractMisses \/ Reset

SpecMisses == InitMisses /\ [][NextMisses]_vars

\* rule is one of the rules of the held state
Installed(rule) ==
    \E i \in 1..Len(state.decisionLogic.rules) : state.decisionLogic.rules[i] = rule

-----------------------------------------------------------------------------
(* Properties of the pipeline's stages, for any caller.                      *)

(* C13: processInteraction never lets an exception reach its caller, for     *)
(* every rule set a shape-conformant configuration can install, also when    *)
(* the winning LLM_CALL or TOOL_USE rule has an actionPayload without the    *)
(* fields its action type reads, such as a null payload.                     *)
C13_ProcessNeverThrows ==
    (ProcessCalled /\ ShapeConformant(state)) => ~lastCall.threw

-----------------------------------------------------------------------------
(* The calculator: the controller constructed with one TOOL_USE rule that    *)
(* always wins, for every tool, operation and pair of operands drawn below.  *)

ToolRule(toolName, operation, num1, num2) ==
    [name |-> <<"T","o","o","l">>, condition |-> "true", actionType |-> TOOL_USE,
     actionPayload |-> [toolName |-> toolName,
                        args |-> [operation |-> operation, num1 |-> num1, num2 |-> num2]],
     priority |-> 5]

\* naturals that are doubles: small ones, 2^53, and a root of a product
\* above 2^53
CalcOperands ==
    {Number(0), Number(1), Number(2), Number(3), Number(12), Number(94906267), TwoTo53}

\* the pairs whose sum and product are below 10^20: String(n) writes the
\* digits of n out for n below 10^21
CalcPairs ==
    {pair \in CalcOperands \X CalcOperands : Len(pair[1]) + Len(pair[2]) <= 20}

InitCalc ==
    /\ \E toolName \in {<<"c","a","l","c","u","l","a","t","o","r">>, <<"w","e","a","t","h","e","r">>}, operation \in {<<"a","d","d">>, <<"m","u","l","t","i","p","l","y">>},
          pair \in CalcPairs :
            state = constructed([getDefaultTwinState EXCEPT !.decisionLogic.rules =
                        <<ToolRule(toolName, operation, pair[1], pair[2])>>])
    /\ InitCaller
    /\ InitNoView

InteractCalc ==
    /\ CanInteract
    /\ processInteraction(<<"o","k">>, Absent)

NextCalc == InteractCalc \/ Reset

SpecCalc == InitCalc /\ [][NextCalc]_vars

(* C14: when the winning rule is TOOL_USE with the tool "calculator", the    *)
(* output is the decimal text of num1 + num2 for "add" and of num1 * num2    *)
(* for "multiply", for all numbers num1 and num2; any other tool name gives  *)
(* a placeholder that names the tool and echoes its arguments.               *)
C14_CalculatorExact ==
    (ProcessReturned /\ lastCall.rule # NoRule) =>
        LET payload == lastCall.rule.actionPayload
            args == payload.args
        IN  /\ (payload.toolName = <<"c","a","l","c","u","l","a","t","o","r">> /\ args.operation = <<"a","d","d">>) =>
                   lastCall.output = digitsText(addDigits(args.num1, args.num2))
            /\ (payload.toolName = <<"c","a","l","c","u","l","a","t","o","r">> /\ args.operation = <<"m","u","l","t","i","p","l","y">>) =>
                   lastCall.output = digitsText(mulDigits(args.num1, args.num2))
            /\ payload.toolName # <<"c","a","l","c","u","l","a","t","o","r">> =>
                   /\ Includes(lastCall.output, payload.toolName)
                   /\ Includes(lastCall.output, argsJson(args))


-----------------------------------------------------------------------------
(* The context of an interaction: default twins, one of them learning from  *)
(* feedback, fed inputs with and without sentiment cues and memory keys.    *)

LearningConfig == [getDefaultTwinState EXCEPT !.reinforcementLearning.enabled = TRUE]

\* a twin that remembers more: an entry without content, then two entries
\* about refunds
MemoryConfig ==
    [getDefaultTwinState EXCEPT
        !.memory.longTermMemory.entries =
            << [id |-> <<"m","e","m","0">>, content |-> <<>>],
               [id |-> <<"m","e","m","2">>, content |-> <<"R","e","f","u","n","d","s"," ","t","a","k","e"," ","5"," ","d","a","y","s",".">>] >> \o @]

ContextInputs ==
    {<<"T","h","i","s"," ","i","s"," ","g","r","e","a","t">>, <<"g","o","o","d"," ","a","n","d"," ","b","a","d">>, <<"T","h","i","s"," ","i","s"," ","t","e","r","r","i","b","l","e">>, <<"B","a","d"," ","G","r","e","a","t">>, <<"r","e","t","u","r","n"," ","p","o","l","i","c","y">>, <<"b","a","d">>,
     <<"R","E","F","U","N","D">>, <<>>}

InitContext ==
    /\ \E config \in {getDefaultTwinState, LearningConfig, MemoryConfig} :
          state = constructed(config)
    /\ InitCaller
    /\ InitNoView

InteractContext ==
    /\ CanInteract
    /\ \E input \in ContextInputs, feedback \in {Absent, [reward |-> 1]} :
          processInteraction(input, feedback)

NextContext == InteractContext \/ Snapshot \/ Reset

SpecContext == InitContext /\ [][NextContext]_vars

\* the user record of the interaction last processed
UserRecord(st) == st.memory.shortTermMemory[Len(st.memory.shortTermMemory) - 1]

(* C15: after processInteraction(input) the sentiment of the context is     *)
(* "positive" if the input contains "great" or "good", otherwise "negative" *)
(* if it contains "bad" or "terrible", otherwise "neutral", the tests being *)
(* case-sensitive, and the user record appended to short-term memory        *)
(* carries the same sentiment.                                              *)
C15_SentimentOfInput ==
    ProcessReturned =>
        LET input == lastCall.input
            sentiment == state.currentStateContext["sentiment"]
        IN  /\ (Includes(input, <<"g","r","e","a","t">>) \/ Includes(input, <<"g","o","o","d">>)) => sentiment = <<"p","o","s","i","t","i","v","e">>
            /\ (/\ ~Includes(input, <<"g","r","e","a","t">>) /\ ~Includes(input, <<"g","o","o","d">>)
                /\ (Includes(input, <<"b","a","d">>) \/ Includes(input, <<"t","e","r","r","i","b","l","e">>))) =>
                   sentiment = <<"n","e","g","a","t","i","v","e">>
            /\ (/\ ~Includes(input, <<"g","r","e","a","t">>) /\ ~Includes(input, <<"g","o","o","d">>)
                /\ ~Includes(input, <<"b","a","d">>) /\ ~Includes(input, <<"t","e","r","r","i","b","l","e">>)) =>
                   sentiment = <<"n","e","u","t","r","a","l">>
            /\ UserRecord(state).role = "user"
            /\ UserRecord(state).content = input
            /\ UserRecord(state).sentiment = sentiment

\* an input with a positive and a negative cue has been classified
C15_Witness ==
    /\ ProcessReturned
    /\ lastCall.input = <<"g","o","o","d"," ","a","n","d"," ","b","a","d">>
    /\ state.currentStateContext["sentiment"] = <<"p","o","s","i","t","i","v","e">>
    /\ UserRecord(state).sentiment = <<"p","o","s","i","t","i","v","e">>

-----------------------------------------------------------------------------
(* Reconfiguration: partial configurations merged into a twin in service.   *)

MergeConfigs ==
    {PartialConfig([name |-> <<"T","w","i","n"," ","C">>]),
     PartialConfig([planning |-> [enabled |-> FALSE, currentGoal |-> <<"r","e","f","u","n","d">>]]),
     PartialConfig([planning |-> [enabled |-> TRUE]]),
     PartialConfig([name |-> <<"T","w","i","n"," ","D">>, decisionLogic |-> [rules |-> <<>>]])}

ConfigureMerge == \E config \in MergeConfigs : configureAgent(config, "none")

SpecConfigure ==
    InitContext /\ [][\/ ConfigureMerge
                      \/ (CanInteract /\ processInteraction(<<"b","a","d">>, Absent))
                      \/ Snapshot
                      \/ Reset]_vars

\* what reading property k of an object yields: undefined both for a property
\* that holds undefined and for one that is not there
Read(st, k) ==
    IF k \in {"currentInput", "currentOutput"} /\ st[k] = UndefinedText THEN AbsentText
    ELSE st[k]

(* C16: configureAgent(config) merges at the top level only: every top-level *)
(* property present in config replaces the held one wholesale, every        *)
(* top-level property absent from config keeps its value, and the value     *)
(* returned is a snapshot equal to the state held after the merge.          *)
C16_ShallowMerge ==
    [][\A config \in MergeConfigs :
           configureAgent(config, "none") =>
               /\ \A k \in Properties :
                      state'[k] = IF Missing(k, config[k]) THEN state[k] ELSE config[k]
               /\ \A k \in Properties : Read(lastCall'.returned, k) = Read(state', k)]_vars

\* a planning section holding a goal has been replaced by one without a goal,
\* on a twin whose other properties were given earlier or never
C16_Witness ==
    /\ lastCall.op = "configureAgent"
    /\ state.planning = [enabled |-> TRUE]
    /\ state.name = <<"T","w","i","n"," ","C">>
    /\ Len(state.memory.shortTermMemory) = 2
    /\ lastCall.returned.planning = [enabled |-> TRUE]

-----------------------------------------------------------------------------
\* short-term memory holds a user record and an agent record per interaction
\* counted, the last pair being the turn the state shows
Consistent(st) ==
    LET stm == st.memory.shortTermMemory
        n == Total(st)
    IN  /\ Len(stm) = 2 * n
        /\ \A i \in 1..Len(stm) : stm[i].role = IF i % 2 = 1 THEN "user" ELSE "agent"
        /\ n > 0 => /\ stm[2 * n - 1].content = st.currentInput
                    /\ stm[2 * n].content = st.currentOutput

(* C17: starting from a configuration with empty shortTermMemory and zero   *)
(* metrics, after any sequence of processInteraction, getTwinState and      *)
(* resetOperationalState calls, the state held and every snapshot returned  *)
(* have exactly 2 * totalInteractions short-term records alternating user,  *)
(* agent, and when totalInteractions > 0 the last two are the user record   *)
(* with content = currentInput and the agent record with content =          *)
(* currentOutput.                                                           *)
C17_SnapshotsConsistent ==
    /\ Consistent(state)
    /\ lastCall.returned # Absent => Consistent(lastCall.returned)

\* a snapshot read after two interactions with different inputs
C17_Witness ==
    /\ lastCall.op = "getTwinState"
    /\ Total(lastCall.returned) = 2
    /\ Len(lastCall.returned.memory.shortTermMemory) = 4
    /\ lastCall.returned.currentInput # lastCall.returned.memory.shortTermMemory[1].content

-----------------------------------------------------------------------------
(* C18: currentStateContext is rebuilt from the input on every interaction: *)
(* after processInteraction(input) it holds only input, inputLength,        *)
(* isQuestion and sentiment, plus relevantMemory if and only if a long-term *)
(* memory entry matched this input; a relevantMemory surfaced by an earlier *)
(* interaction is never still present after an interaction in which no      *)
(* entry matched.                                                           *)
C18_ContextRebuilt ==
    ProcessReturned =>
        DOMAIN state.currentStateContext =
            {"input", "inputLength", "isQuestion", "sentiment"}
            \cup (IF retrieveRelevantMemory(state, lastCall.input) # <<>>
                  THEN {"relevantMemory"} ELSE {})

-----------------------------------------------------------------------------
StartsWith(text, prefix) ==
    Len(text) >= Len(prefix) /\ SubSeq(text, 1, Len(prefix)) = prefix

(* C19: lastDecisionPath is fully replaced by each interaction and follows  *)
(* the stage order: after processInteraction it consists of                 *)
(* "Memory_Retrieval" if an entry matched this input, then the one label    *)
(* "Decision_Rule: <name>" of the rule that fired or "Default_LLM_Fallback" *)
(* when none did, then a "Reinforcement_Learning_Feedback (...)" label if   *)
(* feedback was learned from, and nothing else: no label of an earlier      *)
(* interaction.                                                             *)
C19_PathOfThisInteraction ==
    ProcessReturned =>
        LET path == state.lastDecisionPath
            memory == IF retrieveRelevantMemory(state, lastCall.input) # <<>> THEN 1 ELSE 0
            feedback == IF FeedbackLabelled THEN 1 ELSE 0
        IN  /\ Len(path) = memory + 1 + feedback
            /\ memory = 1 => path[1] = <<"M","e","m","o","r","y","_","R","e","t","r","i","e","v","a","l">>
            /\ path[memory + 1] = IF lastCall.rule = NoRule THEN <<"D","e","f","a","u","l","t","_","L","L","M","_","F","a","l","l","b","a","c","k">>
                                  ELSE <<"D","e","c","i","s","i","o","n","_","R","u","l","e",":"," ">> \o lastCall.rule.name
            /\ feedback = 1 =>
                   /\ StartsWith(Last(path), <<"R","e","i","n","f","o","r","c","e","m","e","n","t","_","L","e","a","r","n",
                       "i","n","g","_","F","e","e","d","b","a","c","k"," ","(">>)
                   /\ Last(Last(path)) = ")"

\* a second interaction that went through all three stages
C19_Witness ==
    /\ ProcessReturned
    /\ Total(state) = 2
    /\ Len(state.lastDecisionPath) = 3
    /\ state.lastDecisionPath[1] = <<"M","e","m","o","r","y","_","R","e","t","r","i","e","v","a","l">>
    /\ state.lastDecisionPath[2] = <<"D","e","f","a","u","l","t","_","L","L","M","_","F","a","l","l","b","a","c","k">>
    /\ StartsWith(state.lastDecisionPath[3], <<"R","e","i","n","f","o","r","c","e","m","e","n","t","_","L","e","a","r","n","i","n","g","_",
        "F","e","e","d","b","a","c","k"," ","(">>)

-----------------------------------------------------------------------------
\* the configuration of a twin: what processInteraction reads and never writes
Configuration(st) ==
    [k \in {"id", "name", "description", "promptEngineering", "decisionLogic",
            "planning", "reinforcementLearning"} |-> st[k]]

(* C20: processInteraction leaves all configuration unchanged: for every    *)
(* input and feedback, the long-term memory entries, the decision rules in  *)
(* their original order, promptEngineering, planning, the identity fields,  *)
(* reinforcementLearning.enabled and the experience buffer are the same     *)
(* after the call as before it; no experience record is appended.           *)
C20_ConfigurationUntouched ==
    [][lastCall'.op = "processInteraction" =>
           /\ Configuration(state') = Configuration(state)
           /\ IsUndefined(state.memory) => IsUndefined(state'.memory)
           /\ ~IsUndefined(state.memory) =>
                  state'.memory.longTermMemory = state.memory.longTermMemory]_vars

\* an interaction with feedback has been served by a twin whose rules are not
\* in priority order: the rules are as given and the experience buffer is empty
C20_Witness ==
    /\ ProcessReturned
    /\ ~IsUndefined(lastCall.feedback)
    /\ state.decisionLogic.rules = EditedConfig.decisionLogic.rules
    /\ state.reinforcementLearning.currentExperienceBuffer = <<>>
    /\ Len(state.memory.shortTermMemory) = 2

-----------------------------------------------------------------------------
\* the short-term memory of a state, empty for a state without memory
Stm(st) == IF IsUndefined(st.memory) THEN <<>> ELSE st.memory.shortTermMemory

IsPrefix(s, t) == Len(s) <= Len(t) /\ SubSeq(t, 1, Len(s)) = s

(* C21: short-term memory is append-only within a session: each            *)
(* processInteraction that returns keeps all earlier records unchanged as a *)
(* prefix and appends exactly two records, first the user record with the   *)
(* input and its sentiment, then the agent record with the output and no    *)
(* sentiment; a call that throws and a read leave it alone; only            *)
(* resetOperationalState, a new configuration or a new twin replaces it.    *)
C21_ShortTermMemoryAppendOnly ==
    [][/\ (lastCall'.op = "processInteraction" /\ ~lastCall'.threw) =>
              Stm(state') = Stm(state) \o
                  << [timestamp |-> now, role |-> "user", content |-> lastCall'.input,
                      sentiment |-> state'.currentStateContext["sentiment"]],
                     [timestamp |-> now, role |-> "agent", content |-> lastCall'.output] >>
       /\ (lastCall'.op = "processInteraction" /\ lastCall'.threw) => Stm(state') = Stm(state)
       /\ lastCall'.op = "getTwinState" => Stm(state') = Stm(state)
       /\ ~IsPrefix(Stm(state), Stm(state')) =>
              lastCall'.op \in {"resetOperationalState", "configureAgent", "constructor"}]_vars

\* a second turn has been appended to the records of the first
C21_Witness ==
    /\ ProcessReturned
    /\ Len(Stm(state)) = 4
    /\ Stm(state)[1].content # Stm(state)[3].content
    /\ Stm(state)[3].content = lastCall.input
    /\ Stm(state)[4] = [timestamp |-> now, role |-> "agent", content |-> lastCall.output]

-----------------------------------------------------------------------------
(* C22: the label "Reinforcement_Learning_Feedback (Reward: {value})" is    *)
(* appended to lastDecisionPath if and only if reinforcementLearning.enabled *)
(* is true and the call was given a feedback object that carries a reward;  *)
(* it is not appended when learning is disabled, when no feedback is passed *)
(* or when the feedback object has no reward.                               *)
C22_FeedbackLabelNeedsReward ==
    ProcessReturned =>
        ((\E i \in 1..Len(state.lastDecisionPath) :
              StartsWith(state.lastDecisionPath[i], <<"R","e","i","n","f","o","r","c","e","m","e","n","t","_","L","e","a","r","n","i",
                  "n","g","_","F","e","e","d","b","a","c","k"," ","(","R","e","w",
                  "a","r","d",":"," ">>))
         <=> (/\ state.reinforcementLearning.enabled
              /\ ~IsUndefined(lastCall.feedback)
              /\ "reward" \in DOMAIN lastCall.feedback))

-----------------------------------------------------------------------------
(* C23: memory retrieval surfaces at most one entry: relevantMemory is set  *)
(* to the content of the first entry, in list order, of                     *)
(* longTermMemory.entries whose content contains the input text as a        *)
(* case-insensitive substring, and "Memory_Retrieval" is recorded exactly   *)
(* when such an entry exists and has content; otherwise the interaction     *)
(* injects nothing (relevantMemory is as the context before had it) and the *)
(* label is absent.                                                         *)
C23_FirstMatchSurfaced ==
    [][(lastCall'.op = "processInteraction" /\ ~lastCall'.threw) =>
           LET entries == state.memory.longTermMemory.entries
               query == lastCall'.input
               hits == {i \in 1..Len(entries) :
                           Includes(toLowerCase(entries[i].content), toLowerCase(query))}
               first == CHOOSE i \in hits : \A j \in hits : i <= j
               before == state.currentStateContext
               after == state'.currentStateContext
               labels == {i \in 1..Len(state'.lastDecisionPath) :
                             state'.lastDecisionPath[i] = <<"M","e","m","o","r","y","_","R","e","t","r","i","e","v","a","l">>}
           IN  IF hits # {} /\ entries[first].content # <<>>
               THEN /\ "relevantMemory" \in DOMAIN after
                    /\ after["relevantMemory"] = entries[first].content
                    /\ labels = {1}
               ELSE /\ labels = {}
                    /\ "relevantMemory" \in DOMAIN after <=> "relevantMemory" \in DOMAIN before
                    /\ "relevantMemory" \in DOMAIN after =>
                           after["relevantMemory"] = before["relevantMemory"]]_vars

\* of two entries that contain the input, the earlier one has been surfaced
C23_Witness ==
    /\ ProcessReturned
    /\ lastCall.input = <<"R","E","F","U","N","D">>
    /\ Len(state.memory.longTermMemory.entries) = 3
    /\ state.currentStateContext["relevantMemory"] = <<"R","e","f","u","n","d","s"," ","t","a","k","e"," ","5"," ","d","a","y","s",".">>
    /\ state.lastDecisionPath[1] = <<"M","e","m","o","r","y","_","R","e","t","r","i","e","v","a","l">>

-----------------------------------------------------------------------------
\* a state with the timestamps of its last two short-term records blanked
Untimed(st) ==
    LET stm == st.memory.shortTermMemory
    IN  [st EXCEPT !.memory.shortTermMemory =
            [i \in 1..Len(stm) |->
                IF i > Len(stm) - 2 THEN [stm[i] EXCEPT !.timestamp = 0] ELSE stm[i]]]

-----------------------------------------------------------------------------
(* C25: in the Digital Twin view, whenever no interaction is in flight, the *)
(* displayed twinState is a snapshot of the state held by the twin that is  *)
(* installed, also when Apply Configuration or Reset State was pressed      *)
(* during the delay of a pending interaction.                               *)
C25_DisplayShowsInstalledTwin ==
    (twin /\ ~isLoading /\ pending = NoPending) => viewTwinState = jsonClone(state)

(* C26: in the Digital Twin view, for a twin applied with empty short-term  *)
(* memory, whenever no interaction is in flight the interaction log lists,  *)
(* in order, exactly the (role, content) pairs of the installed twin's      *)
(* shortTermMemory, for every interleaving of Process, Reset State and      *)
(* Apply Configuration.                                                     *)
C26_LogMirrorsShortTermMemory ==
    (twin /\ ~isLoading /\ pending = NoPending /\ ~IsUndefined(state.memory)) =>
        log = [i \in 1..Len(state.memory.shortTermMemory) |->
                  LogEntry(state.memory.shortTermMemory[i].role,
                           state.memory.shortTermMemory[i].content)]

-----------------------------------------------------------------------------
(* C27: the controller never shares structure with caller-owned objects:    *)
(* after configureAgent(config), a write of the caller into config or into  *)
(* an object nested in it does not change the held state, and no controller *)
(* operation, resetOperationalState in particular, changes an object of the *)
(* caller.                                                                  *)
C27_NoSharedStructure ==
    [][/\ lastCall'.op = "mutate" => state' = state
       /\ lastCall'.op \in {"configureAgent", "processInteraction", "getTwinState",
                            "resetOperationalState"} =>
              \A s \in AliasSlots : callerObj'[s] = callerObj[s]]_vars


-----------------------------------------------------------------------------
(* ImageView: the editing modal.  An image is the record {data, mimeType};   *)
(* the model writes the data of an image as the slot it was generated for    *)
(* and the prompts it was edited with, which is what tells the images apart. *)
(* handleStartEdit is split at its await: the call waits in editRequests     *)
(* with the image and the prompt it closed over.                             *)

\* the model stops pressing Generate Edit after MaxEdits requests
MaxEdits == 2

Generated(slot) == [data |-> [source |-> slot, edits |-> <<>>], mimeType |-> "image/jpeg"]

SessionImages == <<Generated("first"), Generated("second")>>

\* what the user types into the edit prompt
EditPrompts == {<<" ">>, <<"M","a","k","e"," ","i","t"," ","r","e","d",".">>}

\* editImage of the service: the given image, edited as the prompt says
editImage(data, mimeType, prompt) ==
    [image |-> [source |-> data.source, edits |-> Append(data.edits, prompt)],
     mimeType |-> "image/png"]

\* Array.prototype.slice(0, end)
slice(array, end) == SubSeq(array, 1, Min(end, Len(array)))

\* keeps the redo tail (mutant of C29)
appendToAll(prev, newImage, prompt) ==
    [prev EXCEPT !.history = Append(prev.history, newImage),
                 !.promptHistory = Append(prev.promptHistory, prompt),
                 !.historyIndex = Len(slice(prev.history, prev.historyIndex + 1)),
                 !.isLoading = FALSE]

\* the updater handleStartEdit passes to setEditingState after its await
appendEdit(prev, newImage, prompt) ==
    LET newHistory == slice(prev.history, prev.historyIndex + 1)
        newPromptHistory == slice(prev.promptHistory, prev.historyIndex)
    IN  [prev EXCEPT !.history = Append(newHistory, newImage),
                     !.promptHistory = Append(newPromptHistory, prompt),
                     !.historyIndex = Len(newHistory),
                     !.isLoading = FALSE]

\* array[index] of JavaScript for an array of strings
promptAt(array, index) ==
    IF index + 1 \in DOMAIN array THEN array[index + 1] ELSE UndefinedText

\* runImageGeneration, for the first images of the view
runImageGeneration ==
    /\ images = <<>>
    /\ images' = SessionImages
    /\ UNCHANGED <<ctrlVars, viewVars, isModalOpen, editPrompt, editingState, editRequests,
                   builderVars, editsIssued>>

\* a click on an image of the grid, which the open modal covers
handleOpenModal(index) ==
    /\ ~isModalOpen
    /\ editingState' = [index |-> index, originalImage |-> images[index + 1],
                        history |-> <<images[index + 1]>>, promptHistory |-> <<>>,
                        historyIndex |-> 0, isLoading |-> FALSE, error |-> NoError]
    /\ editPrompt' = <<"M","a","k","e"," ","t","h","e"," ","w","i","z","a","r","d"," ","h","a","t"," ","b","l","u",
        "e",".">>
    /\ isModalOpen' = TRUE
    /\ UNCHANGED <<ctrlVars, viewVars, images, editRequests, builderVars, editsIssued>>

\* Cancel, enabled also while an edit is loading; window.confirm is the
\* user's answer
handleCloseModal(confirm) ==
    /\ isModalOpen
    /\ isModalOpen' = (editingState.historyIndex > 0 /\ ~confirm)
    /\ UNCHANGED <<ctrlVars, viewVars, images, editPrompt, editingState, editRequests,
                   builderVars, editsIssued>>

\* the prompt textarea, disabled while the session is loading
setEditPrompt(text) ==
    /\ isModalOpen /\ ~editingState.isLoading
    /\ text # editPrompt
    /\ editPrompt' = text
    /\ UNCHANGED <<ctrlVars, viewVars, images, isModalOpen, editingState, editRequests,
                   builderVars, editsIssued>>

\* handleStartEdit up to its await
handleStartEdit ==
    /\ isModalOpen
    /\ editsIssued < MaxEdits
    /\ ~(trim(editPrompt) = <<>> \/ editingState.isLoading
            \/ editingState.originalImage = Null)
    /\ editingState.historyIndex + 1 \in DOMAIN editingState.history
    /\ LET currentImage == editingState.history[editingState.historyIndex + 1]
       IN  editRequests' = Append(editRequests,
                                 [image |-> currentImage, editPrompt |-> editPrompt])
    /\ editingState' = [editingState EXCEPT !.isLoading = TRUE, !.error = NoError]
    /\ editsIssued' = editsIssued + 1
    /\ UNCHANGED <<ctrlVars, viewVars, images, isModalOpen, editPrompt, builderVars>>

\* handleStartEdit after its await, editImage having answered
EditResolves(i) ==
    /\ LET request == editRequests[i]
           result == editImage(request.image.data, request.image.mimeType,
                               request.editPrompt)
       IN  editingState' = appendEdit(editingState,
                                      [data |-> result.image, mimeType |-> result.mimeType],
                                      request.editPrompt)
    /\ editPrompt' = <<"A","d","d"," ","s","o","m","e"," ","g","l","o","w","i","n","g"," ","r","u","n","e","s"," ",
        "t","o"," ","t","h","e"," ","b","o","o","k","s",".">>
    /\ editRequests' = SubSeq(editRequests, 1, i - 1)
                           \o SubSeq(editRequests, i + 1, Len(editRequests))
    /\ UNCHANGED <<ctrlVars, viewVars, images, isModalOpen, builderVars, editsIssued>>

\* handleStartEdit after its await, editImage having failed
EditRejects(i) ==
    /\ editingState' = [editingState EXCEPT !.error = <<"E","d","i","t"," ","f","a","i","l","e","d",":"," ","q","u","o","t","a">>,
                                            !.isLoading = FALSE]
    /\ editRequests' = SubSeq(editRequests, 1, i - 1)
                           \o SubSeq(editRequests, i + 1, Len(editRequests))
    /\ UNCHANGED <<ctrlVars, viewVars, images, isModalOpen, editPrompt, builderVars, editsIssued>>

\* Accept, disabled while the session is loading
handleAcceptEdit ==
    /\ isModalOpen /\ ~editingState.isLoading
    /\ IF editingState.historyIndex + 1 \in DOMAIN editingState.history
       THEN images' = [i \in DOMAIN images |->
                          IF i - 1 = editingState.index
                          THEN editingState.history[editingState.historyIndex + 1]
                          ELSE images[i]]
       ELSE UNCHANGED images
    /\ isModalOpen' = FALSE
    /\ UNCHANGED <<ctrlVars, viewVars, editPrompt, editingState, editRequests, builderVars, editsIssued>>

\* Undo, disabled at the first entry and while the session is loading
handleUndo ==
    /\ isModalOpen /\ ~editingState.isLoading
    /\ editingState.historyIndex > 0
    /\ editPrompt' = promptAt(editingState.promptHistory, editingState.historyIndex - 1)
    /\ editingState' = [editingState EXCEPT !.historyIndex = @ - 1, !.error = NoError]
    /\ UNCHANGED <<ctrlVars, viewVars, images, isModalOpen, editRequests, builderVars, editsIssued>>

\* Redo, disabled at the last entry and while the session is loading
handleRedo ==
    /\ isModalOpen /\ ~editingState.isLoading
    /\ editingState.historyIndex < Len(editingState.history) - 1
    /\ editPrompt' = promptAt(editingState.promptHistory, editingState.historyIndex)
    /\ editingState' = [editingState EXCEPT !.historyIndex = @ + 1, !.error = NoError]
    /\ UNCHANGED <<ctrlVars, viewVars, images, isModalOpen, editRequests, builderVars, editsIssued>>

\* Reset Changes, disabled at the first entry and while the session is loading
handleResetEdits ==
    /\ isModalOpen /\ ~editingState.isLoading
    /\ editingState.historyIndex # 0
    /\ editingState.originalImage # Null
    /\ editingState' = [editingState EXCEPT !.history = <<editingState.originalImage>>,
                                            !.promptHistory = <<>>,
                                            !.historyIndex = 0, !.error = NoError]
    /\ editPrompt' = <<"M","a","k","e"," ","t","h","e"," ","w","i","z","a","r","d"," ","h","a","t"," ","b","l","u",
        "e",".">>
    /\ UNCHANGED <<ctrlVars, viewVars, images, isModalOpen, editRequests, builderVars, editsIssued>>

NextImage ==
    \/ runImageGeneration
    \/ \E index \in 0..(Len(images) - 1) : handleOpenModal(index)
    \/ \E confirm \in BOOLEAN : handleCloseModal(confirm)
    \/ \E text \in EditPrompts : setEditPrompt(text)
    \/ handleStartEdit
    \/ \E i \in 1..Len(editRequests) : EditResolves(i)
    \/ \E i \in 1..Len(editRequests) : EditRejects(i)
    \/ handleAcceptEdit
    \/ handleUndo
    \/ handleRedo
    \/ handleResetEdits

SpecImage == Init /\ [][NextImage]_vars

(* C28: in the image edit modal, the result of an edit request is appended  *)
(* only to the history of the session that issued it: when the modal was    *)
(* cancelled and opened on another image while the request was pending, the *)
(* late result is not added to the new session's history and is not         *)
(* accepted into the other image's slot.  Every entry of an open session's  *)
(* history then derives from the session's original image, and every slot   *)
(* of the grid holds an image that derives from the one generated for it.   *)
C28_ResultStaysInItsSession ==
    /\ isModalOpen =>
           \A k \in DOMAIN editingState.history :
               editingState.history[k].data.source = editingState.originalImage.data.source
    /\ \A slot \in DOMAIN images : images[slot].data.source = SessionImages[slot].data.source

\* the three relations C29 states between the fields of editingState
WellFormed(es) ==
    /\ 0 <= es.historyIndex
    /\ es.historyIndex <= Len(es.history) - 1
    /\ Len(es.promptHistory) = Len(es.history) - 1
    /\ es.history[1] = es.originalImage

(* C29: while an image edit session is open, after any sequence of Generate *)
(* Edit, Undo, Redo and Reset Changes, 0 <= historyIndex <= history.length  *)
(* - 1, promptHistory.length = history.length - 1 and history[0] is the     *)
(* session's original image; a successful Generate Edit at index i keeps    *)
(* the entries 0..i of history, drops the redo tail, appends one entry and  *)
(* leaves historyIndex at the last index.                                   *)
C29_HistoryWellFormed ==
    [][/\ isModalOpen' => WellFormed(editingState')
       /\ \A r \in 1..Len(editRequests) :
              EditResolves(r) =>
                  LET i == editingState.historyIndex
                  IN  /\ Len(editingState'.history) = i + 2
                      /\ SubSeq(editingState'.history, 1, i + 1)
                             = SubSeq(editingState.history, 1, i + 1)
                      /\ editingState'.historyIndex = Len(editingState'.history) - 1]_vars

\* Generate Edit was pressed at the first entry while the history held a
\* redo tail, and the request is waiting for its result
C29_Witness ==
    /\ isModalOpen
    /\ editingState.isLoading
    /\ editingState.historyIndex = 0
    /\ Len(editingState.history) = 2
    /\ Len(editRequests) = 1
    /\ editRequests[1].image = editingState.originalImage
    /\ editRequests[1].editPrompt = <<"M","a","k","e"," ","i","t"," ","r","e","d",".">>

-----------------------------------------------------------------------------
(* AgentBuilderView.  handleSendMessage is split at its awaits: the call     *)
(* waits in streams for runAgentStream to answer, then for each chunk of the *)
(* stream, with the currentResponse it has put together so far.  The reply   *)
(* of the service starts with the name of the agent it was asked as, which   *)
(* is what tells the replies apart; it carries no grounding metadata.        *)

MaxMessages == 4

MaxStreams == 2

AgentConfigs ==
    {[name |-> name, systemInstruction |-> <<"B","e"," ","b","r","i","e","f",".">>,
      tools |-> [useCalculator |-> TRUE, useSearch |-> FALSE]] :
        name \in {<<"M","a","t","h"," ","T","u","t","o","r">>, <<"T","r","a","v","e","l"," ","P","l","a","n","n","e","r">>}}

\* what the user sends from the input of InteractionPanel
ChatInputs == {<<"h","i">>, <<" ">>}

\* the chunks of the stream runAgentStream answers with
runAgentStream(config, updatedMessages) == <<config.name, <<":"," ","n","o","t","e","d">>>>

Greeting(config) ==
    [role |-> "model",
     content |-> <<"H","e","l","l","o","!"," ","I"," ","a","m"," ">> \o config.name
                     \o <<"."," ","H","o","w"," ","c","a","n"," ","I"," ","a","s","s","i","s","t",
                         " ","y","o","u"," ","b","a","s","e","d"," ","o","n",
                         " ","m","y"," ","c","o","n","f","i","g","u","r","e",
                         "d"," ","i","n","s","t","r","u","c","t","i","o","n",
                         "s","?">>]

\* Create Agent of BuilderPanel, enabled at all times
handleCreateAgent(config) ==
    /\ builder' = [agentConfig |-> config, messages |-> <<Greeting(config)>>,
                   isLoading |-> FALSE, error |-> NoError]
    /\ builder' # builder
    /\ UNCHANGED <<ctrlVars, viewVars, imageVars, streams>>

\* handleFormSubmit and handleSendMessage up to the await of runAgentStream;
\* the input is disabled without an agent and while isLoading
handleSendMessage(input) ==
    /\ builder.agentConfig # Null
    /\ ~(trim(input) = <<>> \/ builder.isLoading)
    /\ Len(builder.messages) < MaxMessages
    /\ Len(streams) < MaxStreams
    /\ LET updatedMessages == Append(builder.messages,
                                     [role |-> "user", content |-> input])
       IN  /\ builder' = [builder EXCEPT !.messages = updatedMessages,
                                         !.isLoading = TRUE, !.error = NoError]
           /\ streams' = Append(streams,
                                [chunks |-> runAgentStream(builder.agentConfig,
                                                           updatedMessages),
                                 opened |-> FALSE, currentResponse |-> <<>>])
    /\ UNCHANGED <<ctrlVars, viewVars, imageVars>>

\* runAgentStream has answered: the message of the response is created
StreamOpens(s) ==
    /\ ~streams[s].opened
    /\ builder' = [builder EXCEPT !.messages = Append(@, [role |-> "model",
                                                         content |-> <<>>])]
    /\ streams' = [streams EXCEPT ![s].opened = TRUE]
    /\ UNCHANGED <<ctrlVars, viewVars, imageVars>>

\* one chunk of the stream: the last message of the list gets the response
\* put together so far
ChunkArrives(s) ==
    /\ streams[s].opened /\ streams[s].chunks # <<>>
    /\ builder.messages # <<>>
    /\ LET currentResponse == streams[s].currentResponse \o Head(streams[s].chunks)
       IN  /\ builder' = [builder EXCEPT
                              !.messages[Len(builder.messages)].content = currentResponse]
           /\ streams' = [streams EXCEPT ![s].chunks = Tail(@),
                                         ![s].currentResponse = currentResponse]
    /\ UNCHANGED <<ctrlVars, viewVars, imageVars>>

\* the stream is exhausted: the finally block
StreamEnds(s) ==
    /\ streams[s].opened /\ streams[s].chunks = <<>>
    /\ builder' = [builder EXCEPT !.isLoading = FALSE]
    /\ streams' = SubSeq(streams, 1, s - 1) \o SubSeq(streams, s + 1, Len(streams))
    /\ UNCHANGED <<ctrlVars, viewVars, imageVars>>

\* runAgentStream or the stream throws: the catch and the finally block
StreamFails(s) ==
    /\ Len(builder.messages) <= MaxMessages
    /\ builder' = [builder EXCEPT
                       !.error = <<"S","o","r","r","y",","," ","s","o","m","e","t","h","i","n","g"," ","w",
                           "e","n","t"," ","w","r","o","n","g",":"," ","o",
                           "f","f","l","i","n","e">>,
                       !.messages = Append(@, [role |-> "model",
                                               content |-> <<"E","r","r","o","r",":"," ","o","f","f","l","i",
                                                   "n",
                                                   "e">>]),
                       !.isLoading = FALSE]
    /\ streams' = SubSeq(streams, 1, s - 1) \o SubSeq(streams, s + 1, Len(streams))
    /\ UNCHANGED <<ctrlVars, viewVars, imageVars>>

NextBuilder ==
    \/ \E config \in AgentConfigs : handleCreateAgent(config)
    \/ \E input \in ChatInputs : handleSendMessage(input)
    \/ \E s \in 1..Len(streams) : StreamOpens(s)
    \/ \E s \in 1..Len(streams) : ChunkArrives(s)
    \/ \E s \in 1..Len(streams) : StreamEnds(s)
    \/ \E s \in 1..Len(streams) : StreamFails(s)

SpecBuilder == Init /\ [][NextBuilder]_vars

\* the whole text of the reply an agent gives
ReplyText(config) == config.name \o <<":"," ","n","o","t","e","d">>

(* C30: in the Agent Builder view, every chunk of a streamed response is    *)
(* written only into the model message created for that response: Create    *)
(* Agent or another send while a response is streaming never lets the old   *)
(* stream overwrite the greeting of the new conversation or the message of  *)
(* another response, and after Create Agent the list holds only the new     *)
(* agent's greeting and the messages exchanged with that agent.  The first  *)
(* message is then always the greeting of the agent in place, and every     *)
(* later model message is the beginning of a reply of that agent or the     *)
(* report of a failure.                                                     *)
C30_StreamsWriteTheirOwnMessage ==
    builder.agentConfig # Null =>
        /\ builder.messages # <<>>
        /\ builder.messages[1] = Greeting(builder.agentConfig)
        /\ \A k \in 2..Len(builder.messages) :
               builder.messages[k].role = "model" =>
                   \/ IsPrefix(builder.messages[k].content, ReplyText(builder.agentConfig))
                   \/ builder.messages[k].content = <<"E","r","r","o","r",":"," ","o","f","f","l","i","n","e">>
====
